---- MODULE Spec2Model ----
(***************************************************************************)
(* A model of the JSON comparison engine of jsondiff: FindDifferences and  *)
(* the helpers it calls (compareValues, compareNumericValues,              *)
(* compareBooleanValues, matchesRegex, compareLevenshtein, isComplex).     *)
(*                                                                         *)
(* Strings are sequences of one-character strings, so that ToLower,        *)
(* sort.Strings, ParseFloat, path building and the edit distance are       *)
(* computed character by character as the Go code and its libraries do.    *)
(* A JSON value is a record tagged with its dynamic Go type.               *)
(*                                                                         *)
(* FindDifferences is a set-valued operator: the set of Diff sequences a   *)
(* call may return.  The only source of more than one outcome is the       *)
(* range over a Go map that fills the case-folded lookup maps.             *)
(***************************************************************************)
EXTENDS Integers, Sequences, FiniteSets, TLC

VARIABLES
  file1,        \* jsonFile1.Data, the first decoded document
  file2,        \* jsonFile2.Data, the second decoded document
  flags,        \* the CompareOptions the caller built
  calls,        \* number of calls FindDifferences(file1, file2) made
  differences,  \* what the latest such call returned
  previous,     \* what the call before it returned
  revCalled,    \* whether FindDifferences(file2, file1) has been called
  reversed,     \* what that call returned
  command,      \* main's -quiet and -output-json flags, and whether the
                \* file named by -output-json can be written
  outputFile,   \* whether main has written that file
  stdout,       \* the lines main has printed after the comparison
  exit,         \* the status main has exited with, Running before
  narrowCalled, \* whether the two-option FindDifferences has been called
  narrow        \* the difference strings that call returned

vars == <<file1, file2, flags, calls, differences, previous, revCalled, reversed, command, outputFile, stdout, exit, narrowCalled, narrow>>

(***************************************************************************)
(* Bounds of the model.                                                    *)
(***************************************************************************)
MaxCalls == 2

(***************************************************************************)
(* Characters and strings.                                                 *)
(***************************************************************************)
UpperAlpha == <<"A","B","C","D","E","F","G","H","I","J","K","L","M",
               "N","O","P","Q","R","S","T","U","V","W","X","Y","Z">>

LowerAlpha == <<"a","b","c","d","e","f","g","h","i","j","k","l","m",
               "n","o","p","q","r","s","t","u","v","w","x","y","z">>

Digits == <<"0","1","2","3","4","5","6","7","8","9">>

Range(f) == {f[i] : i \in DOMAIN f}

IsUpper(c) == c \in Range(UpperAlpha)
IsLower(c) == c \in Range(LowerAlpha)
IsDigit(c) == c \in Range(Digits)

IndexOf(c, seq) == CHOOSE i \in DOMAIN seq : seq[i] = c

\* The byte value of a character (ASCII).
Code(c) ==
  IF IsUpper(c) THEN 64 + IndexOf(c, UpperAlpha)
  ELSE IF IsLower(c) THEN 96 + IndexOf(c, LowerAlpha)
  ELSE IF IsDigit(c) THEN 47 + IndexOf(c, Digits)
  ELSE CASE c = "+" -> 43
         [] c = "-" -> 45
         [] c = "." -> 46
         [] c = "[" -> 91
         [] c = "]" -> 93
         [] c = "^" -> 94
         [] c = "$" -> 36
         [] c = "*" -> 42
         [] c = "(" -> 40
         [] c = ")" -> 41

ToLowerChar(c) == IF IsUpper(c) THEN LowerAlpha[IndexOf(c, UpperAlpha)] ELSE c

\* strings.ToLower
ToLower(s) == [i \in 1..Len(s) |-> ToLowerChar(s[i])]

\* EqualFold that folds nothing.
EqualFoldExact(s, t) == s = t

\* strings.EqualFold
EqualFold(s, t) == ToLower(s) = ToLower(t)

\* s < t in the byte-wise lexicographic order sort.Strings uses.
StrLess(s, t) ==
  \E i \in 1..Len(t) :
    /\ i <= Len(s) + 1
    /\ \A j \in 1..(i-1) : s[j] = t[j]
    /\ \/ i = Len(s) + 1
       \/ Code(s[i]) < Code(t[i])

\* The keys in descending order.
RECURSIVE SortStringsDescending(_)
SortStringsDescending(S) ==
  IF S = {} THEN <<>>
  ELSE LET m == CHOOSE x \in S : \A y \in S \ {x} : StrLess(y, x)
       IN  <<m>> \o SortStringsDescending(S \ {m})

RECURSIVE SortStrings(_)
SortStrings(S) ==
  IF S = {} THEN <<>>
  ELSE LET m == CHOOSE x \in S : \A y \in S \ {x} : StrLess(x, y)
       IN  <<m>> \o SortStrings(S \ {m})

\* fmt.Sprintf("%d", n) for n >= 0
RECURSIVE Itoa(_)
Itoa(n) ==
  IF n < 10 THEN <<Digits[n + 1]>>
  ELSE Itoa(n \div 10) \o <<Digits[(n % 10) + 1]>>

Min(a, b) == IF a < b THEN a ELSE b

(***************************************************************************)
(* JSON values as encoding/json decodes them into interface{}.             *)
(* A finite float64 is the pair <<m, p>> standing for m * 10^p, with m not *)
(* divisible by 10 (or <<0, 0>>), so that equal numbers are equal pairs.   *)
(***************************************************************************)
RECURSIVE Normalize(_, _)
Normalize(m, p) ==
  IF m = 0 THEN <<0, 0>>
  ELSE IF m % 10 = 0 THEN Normalize(m \div 10, p + 1)
  ELSE <<m, p>>

Finite(m, p) == [k |-> "finite", v |-> Normalize(m, p)]
Inf(neg)     == [k |-> "inf", neg |-> neg]
NaN          == [k |-> "nan"]

Null      == [t |-> "nil"]
Bool(b)   == [t |-> "bool", b |-> b]
Num(m, p) == [t |-> "float64", n |-> Finite(m, p)]
Str(s)    == [t |-> "string", s |-> s]
Arr(e)    == [t |-> "slice", e |-> e]
Obj(m)    == [t |-> "map", m |-> m]

\* A Go int handed to compareNumericValues directly (not produced by the
\* JSON decoder).
GoInt(i)  == [t |-> "int", i |-> i]

\* reflect.TypeOf
TypeOf(val) == val.t

\* The reflect.Type stored in a TypeMismatch diff.
TypeValue(name) == [t |-> "type", name |-> name]

\* A map without entries.
EmptyMap == [key \in {} |-> Null]

\* float64 ==
FloatEq(x, y) ==
  CASE x.k = "nan" \/ y.k = "nan" -> FALSE
    [] x.k = "inf" /\ y.k = "inf" -> x.neg = y.neg
    [] x.k = "finite" /\ y.k = "finite" -> x.v = y.v
    [] OTHER -> FALSE

\* DeepEqual guarded by a nil test: a nil value equals nothing.
RECURSIVE DeepEqualNotNil(_, _)
DeepEqualNotNil(val1, val2) ==
  IF val1.t # val2.t \/ val1.t = "nil" THEN FALSE
  ELSE CASE val1.t = "float64" -> FloatEq(val1.n, val2.n)
         [] val1.t = "slice" ->
              /\ Len(val1.e) = Len(val2.e)
              /\ \A i \in 1..Len(val1.e) : DeepEqualNotNil(val1.e[i], val2.e[i])
         [] val1.t = "map" ->
              /\ DOMAIN val1.m = DOMAIN val2.m
              /\ \A key \in DOMAIN val1.m : DeepEqualNotNil(val1.m[key], val2.m[key])
         [] OTHER -> val1 = val2

\* reflect.DeepEqual on decoded JSON values: same dynamic type and
\* recursively equal content; a NaN is not equal to itself.
RECURSIVE DeepEqual(_, _)
DeepEqual(val1, val2) ==
  IF val1.t # val2.t THEN FALSE
  ELSE CASE val1.t = "float64" -> FloatEq(val1.n, val2.n)
         [] val1.t = "slice" ->
              /\ Len(val1.e) = Len(val2.e)
              /\ \A i \in 1..Len(val1.e) : DeepEqual(val1.e[i], val2.e[i])
         [] val1.t = "map" ->
              /\ DOMAIN val1.m = DOMAIN val2.m
              /\ \A key \in DOMAIN val1.m : DeepEqual(val1.m[key], val2.m[key])
         [] OTHER -> val1 = val2

(***************************************************************************)
(* The diff kinds and the Diff record.                                     *)
(***************************************************************************)
ValueMismatch   == "value_mismatch"
KeyOnlyInFirst  == "key_only_in_first"
KeyOnlyInSecond == "key_only_in_second"
ArrayLength     == "array_length"
TypeMismatch    == "type_mismatch"

Diff(path, type, value1, value2) ==
  [Path |-> path, Type |-> type, Value1 |-> value1, Value2 |-> value2]

(***************************************************************************)
(* valuecompare.go                                                         *)
(***************************************************************************)
\* isComplex with the slice case forgotten.
isComplexMapOnly(val) == val.t = "map"

isComplex(val) == val.t \in {"map", "slice"}

\* The boolean a value converts to: <<b, ok>>.
boolOf(val) ==
  IF val.t = "bool" THEN <<val.b, TRUE>>
  ELSE IF val.t = "string"
       THEN LET lowerStr == ToLower(val.s)
            IN  IF lowerStr = <<"t","r","u","e">> THEN <<TRUE, TRUE>>
                ELSE IF lowerStr = <<"f","a","l","s","e">> THEN <<FALSE, TRUE>>
                ELSE <<FALSE, FALSE>>
       ELSE <<FALSE, FALSE>>

\* compareBooleanValues reading only the strings "true" and "false" written
\* in lower case.
compareBooleanValuesCaseSensitive(val1, val2) ==
  IF val1.t \notin {"bool", "string"} /\ val2.t \notin {"bool", "string"}
  THEN <<FALSE, FALSE>>
  ELSE LET exact(val) ==
             IF val.t = "bool" THEN <<val.b, TRUE>>
             ELSE IF val.t = "string" /\ val.s = <<"t","r","u","e">> THEN <<TRUE, TRUE>>
             ELSE IF val.t = "string" /\ val.s = <<"f","a","l","s","e">> THEN <<FALSE, TRUE>>
             ELSE <<FALSE, FALSE>>
           c1 == exact(val1)
           c2 == exact(val2)
       IN  IF c1[2] /\ c2[2] THEN <<c1[1] = c2[1], TRUE>>
           ELSE <<FALSE, FALSE>>

\* compareBooleanValues returns <<equal, ok>>.
compareBooleanValues(val1, val2) ==
  IF val1.t \notin {"bool", "string"} /\ val2.t \notin {"bool", "string"}
  THEN <<FALSE, FALSE>>
  ELSE LET c1 == boolOf(val1)
           c2 == boolOf(val2)
       IN  IF c1[2] /\ c2[2] THEN <<c1[1] = c2[1], TRUE>>
           ELSE <<FALSE, FALSE>>

RECURSIVE DigitsValue(_)
DigitsValue(ds) ==
  IF ds = <<>> THEN 0
  ELSE 10 * DigitsValue(SubSeq(ds, 1, Len(ds) - 1)) + (IndexOf(ds[Len(ds)], Digits) - 1)

AllDigits(ds) == \A i \in 1..Len(ds) : IsDigit(ds[i])

\* strconv.ParseFloat(s, 64) for decimal syntax
\*   [sign] digits [ "." digits ] [ ("e"|"E") [sign] digits ]
\* and for the special names inf, infinity and nan: <<value, ok>>.
ParseFloat(s) ==
  LET signed == Len(s) > 0 /\ s[1] \in {"+", "-"}
      neg    == signed /\ s[1] = "-"
      body   == IF signed THEN Tail(s) ELSE s
      low    == ToLower(body)
      ePos   == {i \in 1..Len(body) : body[i] \in {"e", "E"}}
      eAt    == IF ePos = {} THEN Len(body) + 1
                ELSE CHOOSE i \in ePos : \A j \in ePos : i <= j
      mant   == SubSeq(body, 1, eAt - 1)
      expo   == SubSeq(body, eAt + 1, Len(body))
      eSigned == Len(expo) > 0 /\ expo[1] \in {"+", "-"}
      eDigits == IF eSigned THEN Tail(expo) ELSE expo
      dots   == {i \in 1..Len(mant) : mant[i] = "."}
      dotAt  == IF dots = {} THEN Len(mant) + 1 ELSE CHOOSE i \in dots : TRUE
      whole  == SubSeq(mant, 1, dotAt - 1)
      frac   == SubSeq(mant, dotAt + 1, Len(mant))
      expOk  == ePos = {} \/ (Len(eDigits) > 0 /\ AllDigits(eDigits))
      mantOk == /\ Cardinality(dots) <= 1
                /\ AllDigits(whole) /\ AllDigits(frac)
                /\ Len(whole) + Len(frac) > 0
      e      == IF ePos = {} THEN 0
                ELSE IF eSigned /\ expo[1] = "-" THEN 0 - DigitsValue(eDigits)
                ELSE DigitsValue(eDigits)
      m      == DigitsValue(whole \o frac)
  IN  IF low \in {<<"i","n","f">>, <<"i","n","f","i","n","i","t","y">>}
        THEN <<Inf(neg), TRUE>>
      ELSE IF ~signed /\ low = <<"n","a","n">>
        THEN <<NaN, TRUE>>
      ELSE IF mantOk /\ expOk
        THEN <<Finite(IF neg THEN 0 - m ELSE m, e - Len(frac)), TRUE>>
      ELSE <<Finite(0, 0), FALSE>>

\* convertToFloat64 returns <<value, ok>>.
convertToFloat64(val) ==
  CASE val.t = "float64" -> <<val.n, TRUE>>
    [] val.t = "int"     -> <<Finite(val.i, 0), TRUE>>
    [] val.t = "string"  -> ParseFloat(val.s)
    [] OTHER             -> <<Finite(0, 0), FALSE>>

compareNumericValues(val1, val2) ==
  LET c1 == convertToFloat64(val1)
      c2 == convertToFloat64(val2)
  IN  IF c1[2] /\ c2[2] THEN FloatEq(c1[1], c2[1]) ELSE FALSE

(***************************************************************************)
(* regexp.Compile and MatchString for the pattern syntax                   *)
(*   item  ::= atom | atom "*" | atom "+"                                  *)
(*   atom  ::= letter | digit | "." | "^" | "$" | "[" chars "]"            *)
(* A compiled pattern is a sequence of items; a pattern that does not      *)
(* compile (a repetition without argument, a nested repetition, a class    *)
(* without closing bracket) has err = TRUE.                                *)
(***************************************************************************)
ClassEnd(pattern, i) ==
  LET ends == {j \in (i + 2)..Len(pattern) : pattern[j] = "]"}
  IN  IF ends = {} THEN 0 ELSE CHOOSE j \in ends : \A h \in ends : j <= h

RECURSIVE CompileFrom(_, _, _)
CompileFrom(pattern, i, items) ==
  IF i > Len(pattern) THEN [err |-> FALSE, items |-> items]
  ELSE LET c == pattern[i]
       IN  IF c \in {"*", "+"}
           THEN IF items = <<>> \/ items[Len(items)].rep # "1"
                THEN [err |-> TRUE, items |-> <<>>]
                ELSE CompileFrom(pattern, i + 1,
                       [items EXCEPT ![Len(items)].rep = c])
           ELSE IF c = "["
           THEN LET j == ClassEnd(pattern, i)
                IN  IF j = 0 THEN [err |-> TRUE, items |-> <<>>]
                    ELSE CompileFrom(pattern, j + 1,
                           Append(items, [kind |-> "class", rep |-> "1",
                                          set |-> {pattern[h] : h \in (i + 1)..(j - 1)}]))
           ELSE LET kind == CASE c = "." -> "any"
                              [] c = "^" -> "begin"
                              [] c = "$" -> "end"
                              [] OTHER   -> "class"
                IN  CompileFrom(pattern, i + 1,
                      Append(items, [kind |-> kind, rep |-> "1", set |-> {c}]))

Compile(pattern) == CompileFrom(pattern, 1, <<>>)

ItemTakes(item, c) == item.kind = "any" \/ (item.kind = "class" /\ c \in item.set)

\* The items from the k-th on match str starting after position pos.
RECURSIVE MatchAt(_, _, _, _)
MatchAt(items, k, str, pos) ==
  IF k > Len(items) THEN TRUE
  ELSE LET item == items[k]
           here == CASE item.kind = "begin" -> pos = 0
                     [] item.kind = "end"   -> pos = Len(str)
                     [] OTHER -> pos < Len(str) /\ ItemTakes(item, str[pos + 1])
       IN  IF item.kind \in {"begin", "end"}
           THEN (item.rep = "*" \/ here) /\ MatchAt(items, k + 1, str, pos)
           ELSE CASE item.rep = "1" -> here /\ MatchAt(items, k + 1, str, pos + 1)
                  [] item.rep = "*" -> \/ MatchAt(items, k + 1, str, pos)
                                       \/ here /\ MatchAt(items, k, str, pos + 1)
                  [] item.rep = "+" -> here /\ (\/ MatchAt(items, k + 1, str, pos + 1)
                                                \/ MatchAt(items, k, str, pos + 1))

\* re.MatchString: the pattern matches somewhere in str.
MatchString(re, str) == \E pos \in 0..Len(str) : MatchAt(re.items, 1, str, pos)

\* matchesRegex satisfied by one matching string.
matchesRegexEither(val1, val2, pattern) ==
  IF val1.t # "string" \/ val2.t # "string" THEN <<FALSE, FALSE>>
  ELSE LET re == Compile(pattern)
       IN  IF re.err THEN <<FALSE, TRUE>>
           ELSE <<MatchString(re, val1.s) \/ MatchString(re, val2.s), FALSE>>

\* matchesRegex reporting a match, and no error, for a pattern that does
\* not compile.
matchesRegexErrorMatches(val1, val2, pattern) ==
  IF val1.t # "string" \/ val2.t # "string" THEN <<FALSE, FALSE>>
  ELSE LET re == Compile(pattern)
       IN  IF re.err THEN <<TRUE, FALSE>>
           ELSE <<MatchString(re, val1.s) /\ MatchString(re, val2.s), FALSE>>

\* matchesRegex returns <<matches, err>>, err = TRUE for a compile error.
matchesRegex(val1, val2, pattern) ==
  IF val1.t # "string" \/ val2.t # "string" THEN <<FALSE, FALSE>>
  ELSE LET re == Compile(pattern)
       IN  IF re.err THEN <<FALSE, TRUE>>
           ELSE <<MatchString(re, val1.s) /\ MatchString(re, val2.s), FALSE>>

\* levenshtein.ComputeDistance: insertions, deletions and substitutions
\* cost 1 each.
RECURSIVE ComputeDistance(_, _)
ComputeDistance(s, t) ==
  IF Len(s) = 0 THEN Len(t)
  ELSE IF Len(t) = 0 THEN Len(s)
  ELSE LET s1 == SubSeq(s, 1, Len(s) - 1)
           t1 == SubSeq(t, 1, Len(t) - 1)
           cost == IF s[Len(s)] = t[Len(t)] THEN 0 ELSE 1
       IN  Min(Min(ComputeDistance(s1, t) + 1, ComputeDistance(s, t1) + 1),
               ComputeDistance(s1, t1) + cost)

\* compareLevenshtein demanding a distance below the threshold.
compareLevenshteinBelow(val1, val2, threshold) ==
  IF val1.t # "string" \/ val2.t # "string" THEN FALSE
  ELSE ComputeDistance(val1.s, val2.s) < threshold

compareLevenshtein(val1, val2, threshold) ==
  IF val1.t # "string" \/ val2.t # "string" THEN FALSE
  ELSE ComputeDistance(val1.s, val2.s) <= threshold

\* compareValues in which two values that both convert to numbers are
\* decided by the numeric rule before the path-scoped rules are tried.
compareValuesNumericDecides(val1, val2, path, options) ==
  IF /\ options.IgnoreCaseValues /\ ~options.KeysOnly
     /\ val1.t = "string" /\ val2.t = "string" /\ EqualFold(val1.s, val2.s)
    THEN TRUE
  ELSE IF /\ options.IgnoreNullValues /\ ~options.KeysOnly
          /\ (val1.t = "nil" \/ val2.t = "nil")
    THEN TRUE
  ELSE IF /\ options.IgnoreNumericType /\ ~options.KeysOnly
          /\ convertToFloat64(val1)[2] /\ convertToFloat64(val2)[2]
    THEN compareNumericValues(val1, val2)
  ELSE IF /\ ~options.KeysOnly /\ DOMAIN options.RegexMatches # {}
          /\ path \in DOMAIN options.RegexMatches
          /\ LET r == matchesRegex(val1, val2, options.RegexMatches[path])
             IN  ~r[2] /\ r[1]
    THEN TRUE
  ELSE IF /\ ~options.KeysOnly /\ DOMAIN options.LevenshteinKeys # {}
          /\ options.LevenshteinThreshold > 0
          /\ path \in DOMAIN options.LevenshteinKeys
          /\ compareLevenshtein(val1, val2, options.LevenshteinThreshold)
    THEN TRUE
  ELSE IF /\ options.IgnoreBooleanType /\ ~options.KeysOnly
          /\ LET r == compareBooleanValues(val1, val2) IN r[2] /\ r[1]
    THEN TRUE
  ELSE DeepEqual(val1, val2)

(***************************************************************************)
(* compareValues: the relaxations in the order the code tries them.        *)
(* options.RegexMatches and options.LevenshteinKeys are functions whose    *)
(* domain is the set of paths that have an entry.                          *)
(***************************************************************************)
\* compareValues whose null rule returns its test, equal or not.
compareValuesNullDecides(val1, val2, path, options) ==
  IF /\ options.IgnoreCaseValues /\ ~options.KeysOnly
     /\ val1.t = "string" /\ val2.t = "string" /\ EqualFold(val1.s, val2.s)
    THEN TRUE
  ELSE IF options.IgnoreNullValues /\ ~options.KeysOnly
    THEN val1.t = "nil" \/ val2.t = "nil"
  ELSE IF /\ ~options.KeysOnly /\ DOMAIN options.RegexMatches # {}
          /\ path \in DOMAIN options.RegexMatches
          /\ LET r == matchesRegex(val1, val2, options.RegexMatches[path])
             IN  ~r[2] /\ r[1]
    THEN TRUE
  ELSE IF /\ ~options.KeysOnly /\ DOMAIN options.LevenshteinKeys # {}
          /\ options.LevenshteinThreshold > 0
          /\ path \in DOMAIN options.LevenshteinKeys
          /\ compareLevenshtein(val1, val2, options.LevenshteinThreshold)
    THEN TRUE
  ELSE IF /\ options.IgnoreBooleanType /\ ~options.KeysOnly
          /\ LET r == compareBooleanValues(val1, val2) IN r[2] /\ r[1]
    THEN TRUE
  ELSE IF /\ options.IgnoreNumericType /\ ~options.KeysOnly
          /\ compareNumericValues(val1, val2)
    THEN TRUE
  ELSE DeepEqual(val1, val2)

compareValues(val1, val2, path, options) ==
  IF /\ options.IgnoreCaseValues /\ ~options.KeysOnly
     /\ val1.t = "string" /\ val2.t = "string" /\ EqualFold(val1.s, val2.s)
    THEN TRUE
  ELSE IF /\ options.IgnoreNullValues /\ ~options.KeysOnly
          /\ (val1.t = "nil" \/ val2.t = "nil")
    THEN TRUE
  ELSE IF /\ ~options.KeysOnly /\ DOMAIN options.RegexMatches # {}
          /\ path \in DOMAIN options.RegexMatches
          /\ LET r == matchesRegex(val1, val2, options.RegexMatches[path])
             IN  ~r[2] /\ r[1]
    THEN TRUE
  ELSE IF /\ ~options.KeysOnly /\ DOMAIN options.LevenshteinKeys # {}
          /\ options.LevenshteinThreshold > 0
          /\ path \in DOMAIN options.LevenshteinKeys
          /\ compareLevenshtein(val1, val2, options.LevenshteinThreshold)
    THEN TRUE
  ELSE IF /\ options.IgnoreBooleanType /\ ~options.KeysOnly
          /\ LET r == compareBooleanValues(val1, val2) IN r[2] /\ r[1]
    THEN TRUE
  ELSE IF /\ options.IgnoreNumericType /\ ~options.KeysOnly
          /\ compareNumericValues(val1, val2)
    THEN TRUE
  ELSE DeepEqual(val1, val2)

(***************************************************************************)
(* findDifferencesWithOptions.  The result is the set of Diff sequences    *)
(* the call can return.                                                    *)
(***************************************************************************)

\* All concatenations h1 \o h2 \o ... with hi drawn from parts[i].
RECURSIVE ConcatAll(_)
ConcatAll(parts) ==
  IF parts = <<>> THEN {<<>>}
  ELSE {h \o rest : h \in parts[1], rest \in ConcatAll(Tail(parts))}

\* The case-folded maps one range over map m can leave behind: for every
\* lower-cased key, the original key written last.  keyMap[lKey] is that
\* key and lookupMap[lKey] its value; the iteration order of a Go map is
\* unspecified, so any key of m with that lower-cased form can be the one.
FoldedKeyMaps(m) ==
  {keyMap \in [{ToLower(key) : key \in DOMAIN m} -> DOMAIN m] :
     \A lKey \in DOMAIN keyMap : ToLower(keyMap[lKey]) = lKey}

RECURSIVE findDifferencesWithOptions(_, _, _, _)

\* compareMember that in keys-only mode does not descend into containers.
compareMemberKeysOnlyShallow(val1, val2, newPath, options) ==
  IF options.KeysOnly
  THEN {<<>>}
  ELSE IF ~compareValues(val1, val2, newPath, options)
       THEN IF isComplex(val1)
            THEN findDifferencesWithOptions(val1, val2, newPath, options)
            ELSE {<<Diff(newPath, ValueMismatch, val1, val2)>>}
       ELSE {<<>>}

\* The body run for a key present in both maps and for an array element.
compareMember(val1, val2, newPath, options) ==
  IF options.KeysOnly
  THEN IF isComplex(val1)
       THEN findDifferencesWithOptions(val1, val2, newPath, options)
       ELSE {<<>>}
  ELSE IF ~compareValues(val1, val2, newPath, options)
       THEN IF isComplex(val1)
            THEN findDifferencesWithOptions(val1, val2, newPath, options)
            ELSE {<<Diff(newPath, ValueMismatch, val1, val2)>>}
       ELSE {<<>>}

\* checkKey with the two key-only kinds exchanged.
checkKeyKindsExchanged(key, map1, map2, keyMap1, keyMap2, path, options) ==
  LET ok1 == IF options.IgnoreCase THEN key \in DOMAIN keyMap1
             ELSE key \in DOMAIN map1
      ok2 == IF options.IgnoreCase THEN key \in DOMAIN keyMap2
             ELSE key \in DOMAIN map2
      val1 == IF ~ok1 THEN Null
              ELSE IF options.IgnoreCase THEN map1[keyMap1[key]] ELSE map1[key]
      val2 == IF ~ok2 THEN Null
              ELSE IF options.IgnoreCase THEN map2[keyMap2[key]] ELSE map2[key]
      name == IF options.IgnoreCase
              THEN IF ok1 THEN keyMap1[key]
                   ELSE IF ok2 THEN keyMap2[key] ELSE key
              ELSE key
      newPath == IF path # <<>> THEN path \o <<".">> \o name ELSE name
  IN  IF ~ok1 THEN {<<Diff(newPath, KeyOnlyInFirst, Null, val2)>>}
      ELSE IF ~ok2 THEN {<<Diff(newPath, KeyOnlyInSecond, val1, Null)>>}
      ELSE compareMember(val1, val2, newPath, options)

\* checkKey taking the path spelling from the second map first.
checkKeySecondSpelling(key, map1, map2, keyMap1, keyMap2, path, options) ==
  LET ok1 == IF options.IgnoreCase THEN key \in DOMAIN keyMap1
             ELSE key \in DOMAIN map1
      ok2 == IF options.IgnoreCase THEN key \in DOMAIN keyMap2
             ELSE key \in DOMAIN map2
      val1 == IF ~ok1 THEN Null
              ELSE IF options.IgnoreCase THEN map1[keyMap1[key]] ELSE map1[key]
      val2 == IF ~ok2 THEN Null
              ELSE IF options.IgnoreCase THEN map2[keyMap2[key]] ELSE map2[key]
      name == IF options.IgnoreCase
              THEN IF ok2 THEN keyMap2[key]
                   ELSE IF ok1 THEN keyMap1[key] ELSE key
              ELSE key
      newPath == IF path # <<>> THEN path \o <<".">> \o name ELSE name
  IN  IF ~ok1 THEN {<<Diff(newPath, KeyOnlyInSecond, Null, val2)>>}
      ELSE IF ~ok2 THEN {<<Diff(newPath, KeyOnlyInFirst, val1, Null)>>}
      ELSE compareMember(val1, val2, newPath, options)

\* One iteration of the loop over the sorted keys, with the lookup maps
\* already built (keyMap1, keyMap2 are used only when IgnoreCase is set).
checkKey(key, map1, map2, keyMap1, keyMap2, path, options) ==
  LET ok1 == IF options.IgnoreCase THEN key \in DOMAIN keyMap1
             ELSE key \in DOMAIN map1
      ok2 == IF options.IgnoreCase THEN key \in DOMAIN keyMap2
             ELSE key \in DOMAIN map2
      val1 == IF ~ok1 THEN Null
              ELSE IF options.IgnoreCase THEN map1[keyMap1[key]] ELSE map1[key]
      val2 == IF ~ok2 THEN Null
              ELSE IF options.IgnoreCase THEN map2[keyMap2[key]] ELSE map2[key]
      name == IF options.IgnoreCase
              THEN IF ok1 THEN keyMap1[key]
                   ELSE IF ok2 THEN keyMap2[key] ELSE key
              ELSE key
      newPath == IF path # <<>> THEN path \o <<".">> \o name ELSE name
  IN  IF ~ok1 THEN {<<Diff(newPath, KeyOnlyInSecond, Null, val2)>>}
      ELSE IF ~ok2 THEN {<<Diff(newPath, KeyOnlyInFirst, val1, Null)>>}
      ELSE compareMember(val1, val2, newPath, options)

compareMaps(map1, map2, path, options) ==
  IF options.IgnoreCase
  THEN UNION {
         LET keys == SortStrings(DOMAIN keyMap1 \cup DOMAIN keyMap2)
         IN  ConcatAll([i \in 1..Len(keys) |->
               checkKey(keys[i], map1, map2, keyMap1, keyMap2, path, options)])
         : keyMap1 \in FoldedKeyMaps(map1), keyMap2 \in FoldedKeyMaps(map2)}
  ELSE LET keys == SortStrings(DOMAIN map1 \cup DOMAIN map2)
       IN  ConcatAll([i \in 1..Len(keys) |->
             checkKey(keys[i], map1, map2, EmptyMap, EmptyMap, path, options)])

\* compareArrays without the test of the two lengths.
compareArraysNoLength(arr1, arr2, path, options) ==
  LET minLen == Min(Len(arr1), Len(arr2))
  IN  ConcatAll([i \in 1..minLen |->
           compareMember(arr1[i], arr2[i],
                         path \o <<"[">> \o Itoa(i - 1) \o <<"]">>, options)])

\* compareArrays storing the two lengths in exchanged order.
compareArraysLengthsExchanged(arr1, arr2, path, options) ==
  LET lengthDiff == IF Len(arr1) # Len(arr2)
                    THEN <<Diff(path, ArrayLength,
                                GoInt(Len(arr2)), GoInt(Len(arr1)))>>
                    ELSE <<>>
      minLen == Min(Len(arr1), Len(arr2))
  IN  ConcatAll(<<{lengthDiff}>> \o
        [i \in 1..minLen |->
           compareMember(arr1[i], arr2[i],
                         path \o <<"[">> \o Itoa(i - 1) \o <<"]">>, options)])

compareArrays(arr1, arr2, path, options) ==
  LET lengthDiff == IF Len(arr1) # Len(arr2)
                    THEN <<Diff(path, ArrayLength,
                                GoInt(Len(arr1)), GoInt(Len(arr2)))>>
                    ELSE <<>>
      minLen == Min(Len(arr1), Len(arr2))
  IN  ConcatAll(<<{lengthDiff}>> \o
        [i \in 1..minLen |->
           compareMember(arr1[i], arr2[i],
                         path \o <<"[">> \o Itoa(i - 1) \o <<"]">>, options)])

findDifferencesWithOptions(obj1, obj2, path, options) ==
  IF TypeOf(obj1) # TypeOf(obj2)
  THEN {<<Diff(path, TypeMismatch,
               TypeValue(TypeOf(obj1)), TypeValue(TypeOf(obj2)))>>}
  ELSE CASE obj1.t = "map"   -> compareMaps(obj1.m, obj2.m, path, options)
         [] obj1.t = "slice" -> compareArrays(obj1.e, obj2.e, path, options)
         [] OTHER ->
              IF ~options.KeysOnly /\ ~compareValues(obj1, obj2, path, options)
              THEN {<<Diff(path, ValueMismatch, obj1, obj2)>>}
              ELSE {<<>>}

\* FindDifferences packs its flags into a CompareOptions.
FindDifferences(obj1, obj2, path, options) ==
  findDifferencesWithOptions(obj1, obj2, path, options)

(***************************************************************************)
(* The documents and options the caller can hand to FindDifferences.       *)
(***************************************************************************)
CompareOptions(ignoreCase, ignoreCaseValues, ignoreNumericType, ignoreBooleanType, ignoreNullValues, keysOnly, regexMatches, levenshteinKeys, levenshteinThreshold) ==
  [IgnoreCase           |-> ignoreCase,
   IgnoreCaseValues     |-> ignoreCaseValues,
   IgnoreNumericType    |-> ignoreNumericType,
   IgnoreBooleanType    |-> ignoreBooleanType,
   IgnoreNullValues     |-> ignoreNullValues,
   KeysOnly             |-> keysOnly,
   RegexMatches         |-> regexMatches,
   LevenshteinKeys      |-> levenshteinKeys,
   LevenshteinThreshold |-> levenshteinThreshold]

\* Every flag off, no regex path, no Levenshtein key.
NoOptions ==
  CompareOptions(FALSE, FALSE, FALSE, FALSE, FALSE, FALSE, EmptyMap, EmptyMap, 0)

\* No relaxation of value or key equality is switched on.
NoRelaxation(options) ==
  /\ ~options.IgnoreCase /\ ~options.IgnoreCaseValues
  /\ ~options.IgnoreNumericType /\ ~options.IgnoreBooleanType
  /\ ~options.IgnoreNullValues
  /\ DOMAIN options.RegexMatches = {} /\ DOMAIN options.LevenshteinKeys = {}

\* Arrays of at most n elements drawn from vals.
Arrays(vals, n) == {Arr(e) : e \in UNION {[1..k -> vals] : k \in 0..n}}

\* Objects of at most n members with keys from keys and values from vals.
Objects(keys, vals, n) ==
  {Obj(m) : m \in UNION {[ks -> vals] :
                           ks \in {c \in SUBSET keys : Cardinality(c) <= n}}}

\* Documents nested at most d deep whose containers hold at most one child.
RECURSIVE Nested(_, _, _)
Nested(leaves, keys, d) ==
  IF d = 0 THEN leaves
  ELSE LET inner == Nested(leaves, keys, d - 1)
       IN  leaves \cup Arrays(inner, 1) \cup Objects(keys, inner, 1)

MaxDepth == 2

(***************************************************************************)
(* The caller: main calls FindDifferences on the two decoded documents     *)
(* with the empty path.  A caller may repeat the call, and may call it     *)
(* with the documents exchanged.                                           *)
(***************************************************************************)
\* main has not exited yet.
Running == 0 - 1

\* main's presentation flags: -quiet, whether -output-json names a file,
\* and whether os.WriteFile to it succeeds.
Command(quiet, outputJSON, writable) ==
  [quiet |-> quiet, outputJSON |-> outputJSON, writable |-> writable]

NoCommand == Command(FALSE, FALSE, TRUE)

Start(inputs) ==
  /\ \E input \in inputs :
       /\ file1 = input[1]
       /\ file2 = input[2]
       /\ flags = input[3]
  /\ calls = 0
  /\ differences = <<>>
  /\ previous = <<>>
  /\ revCalled = FALSE
  /\ reversed = <<>>
  /\ command = NoCommand
  /\ outputFile = FALSE
  /\ stdout = <<>>
  /\ exit = Running
  /\ narrowCalled = FALSE
  /\ narrow = <<>>

\* A call that deletes the entries of options.RegexMatches as it goes.
CompareConsumingPatterns ==
  /\ calls < MaxCalls
  /\ \E result \in FindDifferences(file1, file2, <<>>, flags) :
       /\ differences' = result
       /\ previous' = differences
       /\ calls' = calls + 1
  /\ flags' = [flags EXCEPT !.RegexMatches = EmptyMap]
  /\ UNCHANGED <<file1, file2, revCalled, reversed>>
  /\ UNCHANGED <<command, outputFile, stdout, exit, narrowCalled, narrow>>

Compare ==
  /\ calls < MaxCalls
  /\ \E result \in FindDifferences(file1, file2, <<>>, flags) :
       /\ differences' = result
       /\ previous' = differences
       /\ calls' = calls + 1
  /\ UNCHANGED <<file1, file2, flags, revCalled, reversed>>
  /\ UNCHANGED <<command, outputFile, stdout, exit, narrowCalled, narrow>>

CompareReversed ==
  /\ ~revCalled
  /\ \E result \in FindDifferences(file2, file1, <<>>, flags) :
       /\ reversed' = result
       /\ revCalled' = TRUE
  /\ UNCHANGED <<file1, file2, flags, calls, differences, previous>>
  /\ UNCHANGED <<command, outputFile, stdout, exit, narrowCalled, narrow>>

Next == Compare \/ CompareReversed

\* One value of every variant tag.
TypeLeaves == {Null, Bool(TRUE), Num(1, 0), Str(<<"a">>)}

TypeDocs == Nested(TypeLeaves, {<<"a">>}, MaxDepth)

TypeInputs ==
  {<<d1, d2, o>> : d1 \in TypeDocs, d2 \in TypeDocs,
                   o \in {NoOptions,
                          [NoOptions EXCEPT !.KeysOnly = TRUE],
                          [NoOptions EXCEPT !.IgnoreNullValues = TRUE]}}

Init == Start(TypeInputs)

Spec == Init /\ [][Next]_vars

(***************************************************************************)
(* Vocabulary of the properties.                                           *)
(***************************************************************************)

\* The positions two documents are compared at: the root, every member
\* whose key both objects hold, every element below both array lengths.
\* depth is 0 for the root; kind is "root", "member" or "element".
RECURSIVE PositionsFrom(_, _, _, _, _)
PositionsFrom(val1, val2, path, depth, kind) ==
  {[path |-> path, left |-> val1, right |-> val2, depth |-> depth, kind |-> kind]}
  \cup
  (IF val1.t = "map" /\ val2.t = "map"
   THEN UNION {PositionsFrom(val1.m[key], val2.m[key],
                             IF path # <<>> THEN path \o <<".">> \o key ELSE key,
                             depth + 1, "member")
               : key \in DOMAIN val1.m \cap DOMAIN val2.m}
   ELSE {})
  \cup
  (IF val1.t = "slice" /\ val2.t = "slice"
   THEN UNION {PositionsFrom(val1.e[i], val2.e[i],
                             path \o <<"[">> \o Itoa(i - 1) \o <<"]">>,
                             depth + 1, "element")
               : i \in 1..Min(Len(val1.e), Len(val2.e))}
   ELSE {})

Positions(val1, val2) == PositionsFrom(val1, val2, <<>>, 0, "root")

\* Path p names the position at path or a position below it.
AtOrBelow(p, pos) ==
  \/ pos.depth = 0
  \/ p = pos.path
  \/ /\ Len(p) > Len(pos.path)
     /\ SubSeq(p, 1, Len(pos.path)) = pos.path
     /\ p[Len(pos.path) + 1] \in {".", "["}

\* The diffs of a report at or below a position, in report order.
RECURSIVE DiffsAtOrBelow(_, _)
DiffsAtOrBelow(report, pos) ==
  IF report = <<>> THEN <<>>
  ELSE (IF AtOrBelow(report[1].Path, pos) THEN <<report[1]>> ELSE <<>>)
       \o DiffsAtOrBelow(Tail(report), pos)

TagsDiffer(pos) == pos.left.t # pos.right.t

\* Every option is off: no relaxation and no keys-only mode.
Plain(options) == NoRelaxation(options) /\ ~options.KeysOnly

(***************************************************************************)
(* C1 (as stated): with no relaxation, wherever the two compared values    *)
(* have different variant tags - at the root, at a member both objects     *)
(* hold, at an array element - the report has exactly one TypeMismatch     *)
(* diff at that path, carrying the two type names, and nothing below.      *)
(***************************************************************************)
C1_TypeGateEverywhere ==
  (calls > 0 /\ Plain(flags)) =>
    \A pos \in Positions(file1, file2) :
      TagsDiffer(pos) =>
        DiffsAtOrBelow(differences, pos) =
          <<Diff(pos.path, TypeMismatch,
                 TypeValue(pos.left.t), TypeValue(pos.right.t))>>

(***************************************************************************)
(* C1 (amended): with no relaxation, wherever the two compared values have *)
(* different variant tags the report has exactly one diff at that path and *)
(* nothing below it; the diff is a TypeMismatch carrying the two type      *)
(* names when the position is the root or the left value is a container,   *)
(* and a ValueMismatch carrying the two values when the position is a      *)
(* member or element whose left value is a primitive.                      *)
(***************************************************************************)
C1_TypeGate ==
  (calls > 0 /\ Plain(flags)) =>
    \A pos \in Positions(file1, file2) :
      TagsDiffer(pos) =>
        DiffsAtOrBelow(differences, pos) =
          <<IF pos.depth = 0 \/ pos.left.t \in {"map", "slice"}
            THEN Diff(pos.path, TypeMismatch,
                      TypeValue(pos.left.t), TypeValue(pos.right.t))
            ELSE Diff(pos.path, ValueMismatch, pos.left, pos.right)>>

\* A call has compared a member or element whose left value is a non-empty
\* container and whose right value has another tag.
C1_Witness ==
  /\ calls > 0 /\ Plain(flags)
  /\ \E pos \in Positions(file1, file2) :
       /\ pos.depth > 0 /\ TagsDiffer(pos)
       /\ pos.left.t = "map" /\ DOMAIN pos.left.m # {}
       /\ Len(differences) = 1 /\ differences[1].Type = TypeMismatch

(***************************************************************************)
(* C2 (as stated): with ignoreNull on and structureOnly off, wherever one  *)
(* of the two compared values is null - member, element or root - nothing  *)
(* is reported at or below that position; with every option off, a member  *)
(* that is null on one side and another primitive on the other yields      *)
(* exactly one ValueMismatch at the member's path.                         *)
(***************************************************************************)
OneIsNull(pos) == pos.left.t = "nil" \/ pos.right.t = "nil"

NullAgainstPrimitive(pos) ==
  /\ pos.kind = "member" /\ TagsDiffer(pos) /\ OneIsNull(pos)
  /\ ~isComplex(pos.left) /\ ~isComplex(pos.right)

C2_NullWildcardEverywhere ==
  calls > 0 =>
    \A pos \in Positions(file1, file2) :
      /\ (flags.IgnoreNullValues /\ ~flags.KeysOnly /\ OneIsNull(pos))
           => DiffsAtOrBelow(differences, pos) = <<>>
      /\ (Plain(flags) /\ NullAgainstPrimitive(pos))
           => DiffsAtOrBelow(differences, pos) =
                <<Diff(pos.path, ValueMismatch, pos.left, pos.right)>>

(***************************************************************************)
(* What holds of the null rule: with ignoreNull on and structureOnly off,  *)
(* wherever one of the two values compared at an object member or an array *)
(* element is null, nothing is reported at or below that position; two     *)
(* root values of which exactly one is null yield one TypeMismatch at the  *)
(* root path.  With every option off, a member that is null on one side    *)
(* and another primitive on the other yields exactly one ValueMismatch.    *)
(***************************************************************************)
NullWildcardBelowRoot ==
  calls > 0 =>
    \A pos \in Positions(file1, file2) :
      /\ (flags.IgnoreNullValues /\ ~flags.KeysOnly /\ OneIsNull(pos))
           => IF pos.kind = "root" /\ TagsDiffer(pos)
              THEN differences =
                     <<Diff(<<>>, TypeMismatch,
                            TypeValue(pos.left.t), TypeValue(pos.right.t))>>
              ELSE DiffsAtOrBelow(differences, pos) = <<>>
      /\ (Plain(flags) /\ NullAgainstPrimitive(pos))
           => DiffsAtOrBelow(differences, pos) =
                <<Diff(pos.path, ValueMismatch, pos.left, pos.right)>>

(***************************************************************************)
(* C5: FindDifferences(a, b) holds a TypeMismatch diff at a path iff       *)
(* FindDifferences(b, a) holds a TypeMismatch diff at the same path with   *)
(* Value1 and Value2 exchanged.                                            *)
(***************************************************************************)
Mirrored(d) == Diff(d.Path, d.Type, d.Value2, d.Value1)

TypeMismatches(report) ==
  {report[i] : i \in {j \in DOMAIN report : report[j].Type = TypeMismatch}}

C5_TypeMismatchSymmetric ==
  (calls > 0 /\ revCalled) =>
    TypeMismatches(reversed) = {Mirrored(d) : d \in TypeMismatches(differences)}

(***************************************************************************)
(* C6: with structureOnly off and every relaxation off, comparing a        *)
(* document with itself returns the empty sequence.                        *)
(***************************************************************************)
C6_Identity ==
  (calls > 0 /\ Plain(flags) /\ file1 = file2) => differences = <<>>

\* A document holding a container that holds a null was compared with
\* itself.
C6_Witness ==
  /\ calls > 0 /\ Plain(flags) /\ file1 = file2
  /\ differences = <<>>
  /\ \E pos \in Positions(file1, file2) : pos.depth = 2 /\ pos.left.t = "nil"

(***************************************************************************)
(* Numbers and the strings that do or do not spell them.                   *)
(***************************************************************************)
NumericLeaves ==
  {Num(1, 0), Num(2, 0), Str(<<"1">>), Str(<<"1", ".", "0">>),
   Str(<<"2">>), Str(<<"4", "2", "a">>)}

NumericDocs == Nested(NumericLeaves, {<<"a">>}, MaxDepth)

NumericInputs ==
  {<<d1, d2, o>> : d1 \in NumericDocs, d2 \in NumericDocs,
                   o \in {NoOptions, [NoOptions EXCEPT !.IgnoreNumericType = TRUE]}}

InitNumeric == Start(NumericInputs)

SpecNumeric == InitNumeric /\ [][Next]_vars

\* The decimal texts of the universe and the number each one spells.
Spells ==
  {<<Str(<<"1">>), Num(1, 0)>>, <<Str(<<"1", ".", "0">>), Num(1, 0)>>,
   <<Str(<<"2">>), Num(2, 0)>>}

NotANumber == {Str(<<"4", "2", "a">>)}

NumberAgainstString(pos) ==
  \/ pos.left.t = "float64" /\ pos.right.t = "string"
  \/ pos.left.t = "string" /\ pos.right.t = "float64"

SameNumber(pos) == <<pos.left, pos.right>> \in Spells \/ <<pos.right, pos.left>> \in Spells

(***************************************************************************)
(* C3 (as stated): at every position, the root included, a number and a    *)
(* string spelling the same number yield no diff with ignoreNumericType    *)
(* on and exactly one ValueMismatch with every option off; a string that   *)
(* is not a number never compares equal to a number.                       *)
(***************************************************************************)
C3_NumericCoercionEverywhere ==
  calls > 0 =>
    \A pos \in Positions(file1, file2) :
      NumberAgainstString(pos) =>
        /\ (flags.IgnoreNumericType /\ SameNumber(pos))
             => DiffsAtOrBelow(differences, pos) = <<>>
        /\ (pos.left \in NotANumber \/ pos.right \in NotANumber)
             => DiffsAtOrBelow(differences, pos) # <<>>
        /\ (Plain(flags) /\ SameNumber(pos))
             => DiffsAtOrBelow(differences, pos) =
                  <<Diff(pos.path, ValueMismatch, pos.left, pos.right)>>

(***************************************************************************)
(* What holds of the numeric rule: at every object member and array        *)
(* element, a number and a string spelling the same number yield no diff   *)
(* with ignoreNumericType on and exactly one ValueMismatch with every      *)
(* option off; a string that is not a number never compares equal to a     *)
(* number.  When a number and a string are the two root values, the report *)
(* is one TypeMismatch at the root path, with the flag on or off.          *)
(***************************************************************************)
NumericCoercionBelowRoot ==
  calls > 0 =>
    \A pos \in Positions(file1, file2) :
      NumberAgainstString(pos) =>
        IF pos.kind = "root"
        THEN differences =
               <<Diff(<<>>, TypeMismatch,
                      TypeValue(pos.left.t), TypeValue(pos.right.t))>>
        ELSE /\ (flags.IgnoreNumericType /\ SameNumber(pos))
                  => DiffsAtOrBelow(differences, pos) = <<>>
             /\ (pos.left \in NotANumber \/ pos.right \in NotANumber)
                  => DiffsAtOrBelow(differences, pos) # <<>>
             /\ (Plain(flags) /\ SameNumber(pos))
                  => DiffsAtOrBelow(differences, pos) =
                       <<Diff(pos.path, ValueMismatch, pos.left, pos.right)>>

(***************************************************************************)
(* Objects whose keys may differ in letter case only.                      *)
(***************************************************************************)
MaxKeys == 2

KeyPool == {<<"a">>, <<"A">>, <<"B">>}

KeyInnerFirst ==
  {Num(1, 0), Num(2, 0),
   Obj([key \in {<<"a">>} |-> Num(1, 0)]),
   Obj([key \in {<<"a">>, <<"A">>} |-> Num(1, 0)])}

KeyInnerSecond == {Num(1, 0), Obj([key \in {<<"A">>} |-> Num(1, 0)])}

KeyInputs ==
  {<<d1, d2, o>> : d1 \in Objects(KeyPool, KeyInnerFirst, MaxKeys),
                   d2 \in Objects(KeyPool, KeyInnerSecond, MaxKeys),
                   o \in {[NoOptions EXCEPT !.IgnoreCase = ic, !.KeysOnly = ko]
                          : ic \in BOOLEAN, ko \in BOOLEAN}}

InitKeys == Start(KeyInputs)

SpecKeys == InitKeys /\ [][Next]_vars

(***************************************************************************)
(* C4: two calls with the same documents and the same options return the   *)
(* same Diff sequence, also with ignoreKeyCase on and an object holding    *)
(* two keys that differ in letter case only.                               *)
(***************************************************************************)
C4_Deterministic == calls >= 2 => differences = previous

(***************************************************************************)
(* Key matching as the options define it.                                  *)
(***************************************************************************)
Canonical(key, options) == IF options.IgnoreCase THEN ToLower(key) ELSE key

\* The keys of map m written as canonical key c.
Spellings(m, c, options) == {key \in DOMAIN m : Canonical(key, options) = c}

CanonicalKeys(m, options) == {Canonical(key, options) : key \in DOMAIN m}

MemberPath(path, key) == IF path # <<>> THEN path \o <<".">> \o key ELSE key

\* The pairs of objects that are compared with each other: the two roots
\* and, below a pair, the two values of a canonical key that has one
\* spelling in each object.
RECURSIVE ObjectPairsFrom(_, _, _, _)
ObjectPairsFrom(val1, val2, path, options) ==
  IF val1.t = "map" /\ val2.t = "map"
  THEN {[path |-> path, left |-> val1.m, right |-> val2.m]}
       \cup UNION {
         IF Canonical(k1, options) = Canonical(k2, options)
            /\ Cardinality(Spellings(val1.m, Canonical(k1, options), options)) = 1
            /\ Cardinality(Spellings(val2.m, Canonical(k2, options), options)) = 1
         THEN ObjectPairsFrom(val1.m[k1], val2.m[k2], MemberPath(path, k1), options)
         ELSE {}
         : k1 \in DOMAIN val1.m, k2 \in DOMAIN val2.m}
  ELSE {}

ObjectPairs == ObjectPairsFrom(file1, file2, <<>>, flags)

\* Path p lies strictly below path q.
Below(p, q) ==
  /\ Len(p) > Len(q)
  /\ SubSeq(p, 1, Len(q)) = q
  /\ p[Len(q) + 1] \in {".", "["}

\* Positions in the report of the diffs of kind type whose path is one of
\* paths.
DiffsOfKindAt(report, type, paths) ==
  {i \in DOMAIN report : report[i].Type = type /\ report[i].Path \in paths}

DiffsBelow(report, paths) ==
  {i \in DOMAIN report : \E q \in paths : Below(report[i].Path, q)}

(***************************************************************************)
(* C7: when two objects are compared, every key held by the left object    *)
(* only yields exactly one KeyOnlyInFirst diff and every key held by the   *)
(* right object only exactly one KeyOnlyInSecond diff, at path parent.key, *)
(* and nothing is reported below such a key; keys held by both yield no    *)
(* key-only diff.  Keys are matched as the options say (lower-cased when   *)
(* ignoreKeyCase is on).  This holds in keys-only mode and at any depth.   *)
(***************************************************************************)
OnlyIn(m, other, options) == CanonicalKeys(m, options) \ CanonicalKeys(other, options)

MemberPaths(pair, m, c, options) ==
  {MemberPath(pair.path, key) : key \in Spellings(m, c, options)}

C7_MissingKeys ==
  calls > 0 =>
    \A pair \in ObjectPairs :
      /\ \A c \in OnlyIn(pair.left, pair.right, flags) :
           LET paths == MemberPaths(pair, pair.left, c, flags)
           IN  /\ Cardinality(DiffsOfKindAt(differences, KeyOnlyInFirst, paths)) = 1
               /\ DiffsOfKindAt(differences, KeyOnlyInSecond, paths) = {}
               /\ DiffsBelow(differences, paths) = {}
      /\ \A c \in OnlyIn(pair.right, pair.left, flags) :
           LET paths == MemberPaths(pair, pair.right, c, flags)
           IN  /\ Cardinality(DiffsOfKindAt(differences, KeyOnlyInSecond, paths)) = 1
               /\ DiffsOfKindAt(differences, KeyOnlyInFirst, paths) = {}
               /\ DiffsBelow(differences, paths) = {}
      /\ \A c \in CanonicalKeys(pair.left, flags) \cap CanonicalKeys(pair.right, flags) :
           LET paths == MemberPaths(pair, pair.left, c, flags)
                          \cup MemberPaths(pair, pair.right, c, flags)
           IN  /\ DiffsOfKindAt(differences, KeyOnlyInFirst, paths) = {}
               /\ DiffsOfKindAt(differences, KeyOnlyInSecond, paths) = {}

\* In keys-only mode a call compared two nested objects of which the left
\* one holds a key the right one lacks, and reported it.
C7_Witness ==
  /\ calls > 0 /\ flags.KeysOnly
  /\ \E pair \in ObjectPairs :
       /\ pair.path # <<>>
       /\ OnlyIn(pair.left, pair.right, flags) # {}
  /\ \E i \in DOMAIN differences : differences[i].Type = KeyOnlyInFirst

(***************************************************************************)
(* C8: with ignoreKeyCase on, two keys that differ in letter case only,    *)
(* one in each object, are one member: no key-only diff is reported for    *)
(* them, their values are compared, and every diff at or below the member  *)
(* spells the key as the left object does.  With ignoreKeyCase off the     *)
(* pair yields KeyOnlyInFirst for the left spelling and KeyOnlyInSecond    *)
(* for the right spelling.                                                 *)
(***************************************************************************)
\* k1 in left and k2 in right differ in letter case only, and neither
\* object holds another spelling of the key.
CasePair(pair, k1, k2) ==
  /\ k1 # k2 /\ ToLower(k1) = ToLower(k2)
  /\ {key \in DOMAIN pair.left : ToLower(key) = ToLower(k1)} = {k1}
  /\ {key \in DOMAIN pair.right : ToLower(key) = ToLower(k2)} = {k2}

AtOrBelowPath(report, q) ==
  {i \in DOMAIN report : report[i].Path = q \/ Below(report[i].Path, q)}

C8_CaseInsensitiveKeys ==
  calls > 0 =>
    \A pair \in ObjectPairs :
      \A k1 \in DOMAIN pair.left, k2 \in DOMAIN pair.right :
        CasePair(pair, k1, k2) =>
          LET p1 == MemberPath(pair.path, k1)
              p2 == MemberPath(pair.path, k2)
              v1 == pair.left[k1]
              v2 == pair.right[k2]
          IN  IF flags.IgnoreCase
              THEN /\ DiffsOfKindAt(differences, KeyOnlyInFirst, {p1, p2}) = {}
                   /\ DiffsOfKindAt(differences, KeyOnlyInSecond, {p1, p2}) = {}
                   /\ AtOrBelowPath(differences, p2) = {}
                   /\ (~isComplex(v1) /\ ~isComplex(v2)) =>
                        ((~flags.KeysOnly /\ v1 # v2)
                           <=> \E i \in DOMAIN differences :
                                 differences[i] = Diff(p1, ValueMismatch, v1, v2))
                   /\ v1 = v2 => AtOrBelowPath(differences, p1) = {}
              ELSE /\ \E i \in DOMAIN differences :
                        /\ differences[i] = Diff(p1, KeyOnlyInFirst, v1, Null)
                        /\ AtOrBelowPath(differences, p1) = {i}
                   /\ \E i \in DOMAIN differences :
                        /\ differences[i] = Diff(p2, KeyOnlyInSecond, Null, v2)
                        /\ AtOrBelowPath(differences, p2) = {i}

\* With ignoreKeyCase on, a call compared the left member "A" with the
\* right member "a", found their values different and reported it at "A".
C8_Witness ==
  /\ calls > 0 /\ flags.IgnoreCase /\ ~flags.KeysOnly
  /\ \E pair \in ObjectPairs :
       /\ pair.path = <<>>
       /\ CasePair(pair, <<"A">>, <<"a">>)
       /\ pair.left[<<"A">>] # pair.right[<<"a">>]
  /\ \E i \in DOMAIN differences :
       differences[i].Path = <<"A">> /\ differences[i].Type = ValueMismatch

(***************************************************************************)
(* Objects and arrays that differ in several places at once.               *)
(***************************************************************************)
MaxLen == 2

OrderInnerFirst ==
  {Num(1, 0), Obj([key \in {<<"a">>, <<"B">>} |-> Num(1, 0)]),
   Arr([i \in 1..MaxLen |-> Num(1, 0)])}

OrderInnerSecond ==
  {Num(2, 0), Obj([key \in {<<"a">>, <<"B">>} |-> Num(2, 0)]),
   Arr(<<Num(2, 0)>>)}

OrderInputs ==
  {<<d1, d2, o>> : d1 \in Objects(KeyPool, OrderInnerFirst, MaxKeys)
                          \cup Arrays(OrderInnerFirst, MaxLen),
                   d2 \in Objects(KeyPool, OrderInnerSecond, MaxKeys)
                          \cup Arrays(OrderInnerSecond, MaxLen),
                   o \in {NoOptions, [NoOptions EXCEPT !.IgnoreCase = TRUE]}}

InitOrder == Start(OrderInputs)

SpecOrder == InitOrder /\ [][Next]_vars

(***************************************************************************)
(* A path read back as its segments: member keys and array indices.  (The  *)
(* keys of these documents hold neither "." nor "[".)                      *)
(***************************************************************************)
FirstOf(p, chars) ==
  LET hits == {i \in 1..Len(p) : p[i] \in chars}
  IN  IF hits = {} THEN Len(p) + 1 ELSE CHOOSE i \in hits : \A j \in hits : i <= j

RECURSIVE Segments(_)
Segments(p) ==
  IF p = <<>> THEN <<>>
  ELSE IF p[1] = "["
    THEN LET close == FirstOf(p, {"]"})
         IN  <<[kind |-> "index", n |-> DigitsValue(SubSeq(p, 2, close - 1))]>>
             \o Segments(SubSeq(p, close + 1, Len(p)))
  ELSE LET q == IF p[1] = "." THEN Tail(p) ELSE p
           stop == FirstOf(q, {".", "["})
       IN  <<[kind |-> "key", text |-> SubSeq(q, 1, stop - 1)]>>
           \o Segments(SubSeq(q, stop, Len(q)))

\* The diff at path p belongs before the diff at path q: p is q's parent
\* position, or at the first segment where they part p has the smaller
\* canonical key, or the smaller index.
ComesBefore(p, q, options) ==
  LET sp == Segments(p)
      sq == Segments(q)
      same == {h \in 0..Min(Len(sp), Len(sq)) : \A g \in 1..h : sp[g] = sq[g]}
      h == (CHOOSE x \in same : \A y \in same : y <= x) + 1
  IN  IF h > Len(sp) THEN h <= Len(sq)
      ELSE IF h > Len(sq) THEN FALSE
      ELSE IF sp[h].kind = "key" /\ sq[h].kind = "key"
        THEN StrLess(Canonical(sp[h].text, options), Canonical(sq[h].text, options))
      ELSE IF sp[h].kind = "index" /\ sq[h].kind = "index"
        THEN sp[h].n < sq[h].n
      ELSE FALSE

(***************************************************************************)
(* C9: the diffs of an object comparison appear in ascending order of the  *)
(* canonical key (lower-cased when ignoreKeyCase is on), key-only diffs at *)
(* their key's place among the value diffs, the diffs of one member's      *)
(* subtree together; the diffs of an array comparison appear in ascending  *)
(* index order after the array's own ArrayLength diff.                     *)
(***************************************************************************)
C9_OutputOrder ==
  calls > 0 =>
    \A i, j \in DOMAIN differences :
      i < j => ComesBefore(differences[i].Path, differences[j].Path, flags)

\* With ignoreKeyCase on, a report lists a diff below member "a" before a
\* key-only diff for "B", and an ArrayLength diff before an element diff.
C9_Witness ==
  /\ calls > 0 /\ flags.IgnoreCase
  /\ \E i, j \in DOMAIN differences :
       /\ i + 1 < j
       /\ differences[i].Type = ArrayLength
       /\ differences[i].Path = <<"a">>
       /\ differences[i + 1].Path = <<"a", "[", "0", "]">>
       /\ differences[j].Path = <<"B">>
       /\ differences[j].Type \in {KeyOnlyInFirst, KeyOnlyInSecond}

(***************************************************************************)
(* The documents of the README's basic comparison: members name, age,      *)
(* address (with member city) and hobbies (an array of two strings).       *)
(***************************************************************************)
kName == <<"n", "a", "m", "e">>
kAge == <<"a", "g", "e">>
kAddress == <<"a", "d", "d", "r", "e", "s", "s">>
kCity == <<"c", "i", "t", "y">>
kHobbies == <<"h", "o", "b", "b", "i", "e", "s">>

Person(name, age, city, hobby) ==
  Obj([key \in {kName, kAge, kAddress, kHobbies} |->
         CASE key = kName    -> Str(name)
           [] key = kAge     -> age
           [] key = kAddress -> Obj([k \in {kCity} |-> Str(city)])
           [] key = kHobbies -> Arr(<<Str(<<"r", "e", "a", "d", "i", "n", "g">>), Str(hobby)>>)])

ReadmeDocs ==
  {Person(name, age, city, hobby) :
     name \in {<<"J", "o", "h", "n">>, <<"J", "a", "n", "e">>},
     age \in {Num(30, 0), Num(31, 0)},
     city \in {<<"N", "e", "w", " ", "Y", "o", "r", "k">>, <<"B", "o", "s", "t", "o", "n">>},
     hobby \in {<<"c", "y", "c", "l", "i", "n", "g">>, <<"s", "w", "i", "m", "m", "i", "n", "g">>}}

ReadmeInputs == {<<d1, d2, NoOptions>> : d1 \in ReadmeDocs, d2 \in ReadmeDocs}

InitReadme == Start(ReadmeInputs)

SpecReadme == InitReadme /\ [][Next]_vars

PathsOf(report) == [i \in DOMAIN report |-> report[i].Path]

(***************************************************************************)
(* C10: for two documents with members name, age, address and hobbies      *)
(* whose values differ at name, age, address.city and hobbies[1], the      *)
(* differences are reported in the order name, age, address.city,          *)
(* hobbies[1], as the README's output example shows.                       *)
(***************************************************************************)
C10_ReadmeOrder ==
  (/\ calls > 0
   /\ file1.m[kName] # file2.m[kName]
   /\ file1.m[kAge] # file2.m[kAge]
   /\ file1.m[kAddress].m[kCity] # file2.m[kAddress].m[kCity]
   /\ file1.m[kHobbies].e[2] # file2.m[kHobbies].e[2])
  => PathsOf(differences) =
       <<kName, kAge,
         kAddress \o <<".">> \o kCity,
         kHobbies \o <<"[", "1", "]">> >>

(***************************************************************************)
(* Arrays of different lengths, at the root, inside arrays and inside      *)
(* objects.                                                                *)
(***************************************************************************)
Filled(val, n) == Arr([i \in 1..n |-> val])

ArrayInnerFirst == {Num(1, 0), Filled(Num(1, 0), 1), Filled(Num(1, 0), MaxLen)}

ArrayInnerSecond == {Num(1, 0), Filled(Num(2, 0), 1), Filled(Num(2, 0), MaxLen)}

ArrayInputs ==
  {<<d1, d2, o>> : d1 \in Arrays(ArrayInnerFirst, MaxLen)
                          \cup Objects({<<"a">>}, ArrayInnerFirst, 1),
                   d2 \in Arrays(ArrayInnerSecond, MaxLen)
                          \cup Objects({<<"a">>}, ArrayInnerSecond, 1),
                   o \in {NoOptions, [NoOptions EXCEPT !.KeysOnly = TRUE]}}

InitArrays == Start(ArrayInputs)

SpecArrays == InitArrays /\ [][Next]_vars

\* Sequence q is a prefix of sequence p.
IsPrefix(q, p) == Len(q) <= Len(p) /\ SubSeq(p, 1, Len(q)) = q

ElementPath(path, i) == path \o <<"[">> \o Itoa(i) \o <<"]">>

\* Positions in the report of the diffs at or below element i of the array
\* at path.
DiffsAtElement(report, path, i) ==
  {h \in DOMAIN report : IsPrefix(ElementPath(path, i), report[h].Path)}

(***************************************************************************)
(* C11: when two arrays of lengths n1 and n2 are compared at path p, the   *)
(* report holds exactly one ArrayLength diff at p, with Value1 = n1 and    *)
(* Value2 = n2, if n1 # n2 and none if n1 = n2; every diff below p lies at  *)
(* or below an element p[i] with i < min(n1, n2), two different primitive  *)
(* elements at such an index yield a ValueMismatch at p[i] (unless in      *)
(* keys-only mode), and nothing is reported for an index >= min(n1, n2).   *)
(***************************************************************************)
C11_ArrayLength ==
  calls > 0 =>
    \A pos \in Positions(file1, file2) :
      (pos.left.t = "slice" /\ pos.right.t = "slice") =>
        LET n1 == Len(pos.left.e)
            n2 == Len(pos.right.e)
            minLen == Min(n1, n2)
            lengthDiffs == DiffsOfKindAt(differences, ArrayLength, {pos.path})
        IN  /\ n1 # n2 =>
                 /\ Cardinality(lengthDiffs) = 1
                 /\ \A h \in lengthDiffs :
                      differences[h] =
                        Diff(pos.path, ArrayLength, GoInt(n1), GoInt(n2))
            /\ n1 = n2 => lengthDiffs = {}
            /\ \A h \in DOMAIN differences :
                 (differences[h].Path # pos.path
                  /\ IsPrefix(pos.path, differences[h].Path)
                  /\ differences[h].Path[Len(pos.path) + 1] = "[")
                 => \E i \in 0..(minLen - 1) :
                      h \in DiffsAtElement(differences, pos.path, i)
            /\ \A i \in 0..(minLen - 1) :
                 LET v1 == pos.left.e[i + 1]
                     v2 == pos.right.e[i + 1]
                 IN  (~flags.KeysOnly /\ ~isComplex(v1) /\ ~isComplex(v2) /\ v1 # v2)
                     => \E h \in DOMAIN differences :
                          differences[h] =
                            Diff(ElementPath(pos.path, i), ValueMismatch, v1, v2)
            /\ \A i \in minLen..(n1 + n2) :
                 DiffsAtElement(differences, pos.path, i) = {}

\* A call compared two nested arrays of different lengths with a common
\* first index, and reported the lengths and the element at index 0.
C11_Witness ==
  /\ calls > 0 /\ ~flags.KeysOnly
  /\ \E pos \in Positions(file1, file2) :
       /\ pos.depth > 0
       /\ pos.left.t = "slice" /\ pos.right.t = "slice"
       /\ Len(pos.left.e) > Len(pos.right.e) /\ Len(pos.right.e) > 0
       /\ \E h \in DOMAIN differences :
            /\ h < Len(differences)
            /\ differences[h] =
                 Diff(pos.path, ArrayLength,
                      GoInt(Len(pos.left.e)), GoInt(Len(pos.right.e)))
            /\ differences[h + 1].Path = ElementPath(pos.path, 0)
            /\ differences[h + 1].Type = ValueMismatch

(***************************************************************************)
(* Documents that differ in leaf values and in structure: chains of        *)
(* containers, and objects of two members.                                 *)
(***************************************************************************)
StructureLeaves == {Null, Num(1, 0), Num(2, 0), Str(<<"a">>)}

StructureChains == Nested(StructureLeaves, {<<"a">>}, MaxDepth)

StructureInnerFirst ==
  {Num(1, 0), Null,
   Obj([key \in {<<"a">>} |-> Num(1, 0)]),
   Arr(<<Num(1, 0)>>),
   Arr(<<Obj([key \in {<<"a">>} |-> Num(1, 0)])>>)}

StructureInnerSecond ==
  {Num(2, 0), Str(<<"a">>),
   Obj(EmptyMap), Obj([key \in {<<"a">>} |-> Num(2, 0)]),
   Arr(<<>>), Arr(<<Obj(EmptyMap)>>)}

StructureFlags ==
  {[NoOptions EXCEPT !.KeysOnly = ko, !.IgnoreNullValues = nu]
   : ko \in BOOLEAN, nu \in BOOLEAN}

StructureInputs ==
  {<<d1, d2, o>> : d1 \in StructureChains, d2 \in StructureChains,
                   o \in StructureFlags}
  \cup
  {<<d1, d2, o>> : d1 \in Objects({<<"a">>, <<"b">>}, StructureInnerFirst, 2),
                   d2 \in Objects({<<"a">>, <<"b">>}, StructureInnerSecond, 2),
                   o \in StructureFlags}

InitStructure == Start(StructureInputs)

SpecStructure == InitStructure /\ [][Next]_vars

\* A value with every primitive leaf replaced by a fixed value of the same
\* variant tag; type names and lengths stored in a diff stay as they are.
RECURSIVE Blank(_)
Blank(val) ==
  CASE val.t = "slice"   -> Arr([i \in DOMAIN val.e |-> Blank(val.e[i])])
    [] val.t = "map"     -> Obj([key \in DOMAIN val.m |-> Blank(val.m[key])])
    [] val.t = "bool"    -> Bool(FALSE)
    [] val.t = "float64" -> Num(0, 0)
    [] val.t = "string"  -> Str(<<>>)
    [] OTHER             -> val

BlankReport(report) ==
  [i \in DOMAIN report |->
     Diff(report[i].Path, report[i].Type,
          Blank(report[i].Value1), Blank(report[i].Value2))]

\* The key-only and array-length diffs of a report, in report order.
RECURSIVE Structural(_)
Structural(report) ==
  IF report = <<>> THEN <<>>
  ELSE (IF report[1].Type \in {KeyOnlyInFirst, KeyOnlyInSecond, ArrayLength}
        THEN <<report[1]>> ELSE <<>>)
       \o Structural(Tail(report))

StructureOff(options) == [options EXCEPT !.KeysOnly = FALSE]

NoValueMismatch(report) ==
  \A i \in DOMAIN report : report[i].Type # ValueMismatch

StructuralAsWithOff ==
  Structural(differences) \in
    {Structural(r) : r \in FindDifferences(file1, file2, <<>>, StructureOff(flags))}

(***************************************************************************)
(* C12: with keys-only on, the report holds no ValueMismatch; it does not  *)
(* depend on the values of the primitive leaves: replacing every leaf by   *)
(* another value of its variant tag changes nothing in the report but the  *)
(* member values that key-only diffs carry along, which are replaced       *)
(* alike; and its key-only and array-length diffs, at any depth, inside    *)
(* objects and inside array elements, are those reported with keys-only    *)
(* off.                                                                    *)
(***************************************************************************)
C12_StructureOnly ==
  (calls > 0 /\ flags.KeysOnly) =>
    /\ NoValueMismatch(differences)
    /\ BlankReport(differences)
         \in FindDifferences(Blank(file1), Blank(file2), <<>>, flags)
    /\ StructuralAsWithOff

\* In keys-only mode a call compared two objects whose member "a" differs
\* in a leaf value only and whose member "b" holds, inside an array, an
\* object missing a key on the right; only the missing key was reported.
C12_Witness ==
  /\ calls > 0 /\ flags.KeysOnly
  /\ file1.t = "map" /\ file2.t = "map"
  /\ DOMAIN file1.m = {<<"a">>, <<"b">>} /\ DOMAIN file2.m = {<<"a">>, <<"b">>}
  /\ file1.m[<<"a">>] = Num(1, 0) /\ file2.m[<<"a">>] = Num(2, 0)
  /\ differences =
       <<Diff(<<"b", "[", "0", "]", ".", "a">>, KeyOnlyInFirst, Num(1, 0), Null)>>

(***************************************************************************)
(* Strings compared under a pattern registered for one path.               *)
(***************************************************************************)
RegexLeaves == {Str(<<"1">>), Str(<<"2">>), Str(<<"a">>), Num(1, 0)}

kK == <<"k">>
kJ == <<"j">>

RegexDocs ==
  RegexLeaves
  \cup {Obj([key \in {kK, kJ} |-> IF key = kK THEN x ELSE y])
        : x \in RegexLeaves, y \in RegexLeaves}
  \cup {Arr(<<x>>) : x \in RegexLeaves}
  \cup {Obj([key \in {kK} |-> Obj([k \in {kJ} |-> x])]) : x \in RegexLeaves}

\* "^[12]$", "." and "a" compile; "*" and "[1" do not.
OneOrTwo == <<"^", "[", "1", "2", "]", "$">>
AnyChar == <<".">>
LetterA == <<"a">>
ValidPatterns == {OneOrTwo, AnyChar, LetterA}
InvalidPatterns == {<<"*">>, <<"[", "1">>}

RegexPaths == {<<>>, kK, kK \o <<".">> \o kJ, <<"[", "0", "]">>}

\* No entry, or one entry.
RegexMaps ==
  {EmptyMap}
  \cup {[path \in {q} |-> pattern]
        : q \in RegexPaths, pattern \in ValidPatterns \cup InvalidPatterns}

RegexInputs ==
  {<<d1, d2, o>> : d1 \in RegexDocs, d2 \in RegexDocs,
                   o \in {[NoOptions EXCEPT !.RegexMatches = r,
                                            !.IgnoreNumericType = nu]
                          : r \in RegexMaps, nu \in BOOLEAN}}

InitRegex == Start(RegexInputs)

SpecRegex == InitRegex /\ [][Next]_vars

\* The strings of the universe each pattern matches.
PatternMatches ==
  {<<OneOrTwo, <<"1">> >>, <<OneOrTwo, <<"2">> >>,
   <<AnyChar, <<"1">> >>, <<AnyChar, <<"2">> >>, <<AnyChar, <<"a">> >>,
   <<LetterA, <<"a">> >>}

\* A pattern is registered for the position's path and both values are
\* strings matching it.
BothMatch(pos, options) ==
  /\ pos.path \in DOMAIN options.RegexMatches
  /\ pos.left.t = "string" /\ pos.right.t = "string"
  /\ <<options.RegexMatches[pos.path], pos.left.s>> \in PatternMatches
  /\ <<options.RegexMatches[pos.path], pos.right.s>> \in PatternMatches

\* Only the regex rule can relax equality.
RegexOnly(options) ==
  /\ ~options.IgnoreCase /\ ~options.IgnoreCaseValues
  /\ ~options.IgnoreNumericType /\ ~options.IgnoreBooleanType
  /\ ~options.IgnoreNullValues /\ ~options.KeysOnly
  /\ DOMAIN options.LevenshteinKeys = {}

LeafPair(pos) == ~isComplex(pos.left) /\ ~isComplex(pos.right)

\* The diff reported for two unequal primitives at a position.
UnequalLeafDiff(pos) ==
  IF pos.kind = "root" /\ TagsDiffer(pos)
  THEN Diff(pos.path, TypeMismatch, TypeValue(pos.left.t), TypeValue(pos.right.t))
  ELSE Diff(pos.path, ValueMismatch, pos.left, pos.right)

(***************************************************************************)
(* C13: with the regex rule the only relaxation, two primitives compared   *)
(* at a position yield no diff iff they are equal or a pattern is          *)
(* registered for exactly that path and both are strings matching it (be   *)
(* they different from each other); otherwise - only one string matches,   *)
(* one value is not a string, the pattern is registered for another path - *)
(* they yield the diff they yield without the rule.                        *)
(***************************************************************************)
C13_RegexByPath ==
  (calls > 0 /\ RegexOnly(flags)) =>
    \A pos \in Positions(file1, file2) :
      LeafPair(pos) =>
        DiffsAtOrBelow(differences, pos) =
          IF pos.left = pos.right \/ BothMatch(pos, flags)
          THEN <<>>
          ELSE <<UnequalLeafDiff(pos)>>

\* A pattern is registered for "k"; the two different strings at "k" both
\* match it and are not reported, the same two strings at "j" are.
C13_Witness ==
  /\ calls > 0 /\ RegexOnly(flags)
  /\ DOMAIN flags.RegexMatches = {kK}
  /\ \E pos \in Positions(file1, file2) :
       /\ pos.path = kK /\ pos.left # pos.right /\ BothMatch(pos, flags)
       /\ differences =
            <<Diff(kJ, ValueMismatch, pos.left, pos.right)>>

(***************************************************************************)
(* C14: when every registered pattern fails to compile, FindDifferences    *)
(* returns, and returns what it returns for the same documents and flags   *)
(* with no pattern registered: the pair at the pattern's path is decided   *)
(* by the remaining rules (here numeric coercion and deep equality), the   *)
(* other positions as usual.                                               *)
(***************************************************************************)
OnlyInvalidPatterns(options) ==
  /\ DOMAIN options.RegexMatches # {}
  /\ \A q \in DOMAIN options.RegexMatches :
       options.RegexMatches[q] \in InvalidPatterns

WithoutRegex(options) == [options EXCEPT !.RegexMatches = EmptyMap]

C14_InvalidRegex ==
  (calls > 0 /\ OnlyInvalidPatterns(flags)) =>
    differences \in FindDifferences(file1, file2, <<>>, WithoutRegex(flags))

\* A pattern that does not compile is registered for "k"; the call
\* returned, found "1" and 1 at "k" equal by numeric coercion and reported
\* the two different strings at "j".
C14_Witness ==
  /\ calls > 0 /\ flags.IgnoreNumericType
  /\ DOMAIN flags.RegexMatches = {kK}
  /\ flags.RegexMatches[kK] \in InvalidPatterns
  /\ file1.t = "map" /\ file2.t = "map"
  /\ kJ \in DOMAIN file1.m /\ kJ \in DOMAIN file2.m
  /\ file1.m[kK] = Str(<<"1">>) /\ file2.m[kK] = Num(1, 0)
  /\ differences = <<Diff(kJ, ValueMismatch, Str(<<"1">>), Str(<<"2">>))>>

(***************************************************************************)
(* C18: with ignoreNumericType on and a pattern registered for a path, two *)
(* strings at that path that both match the pattern yield no ValueMismatch *)
(* at that path - nothing at all is reported there - even when they parse  *)
(* to different numbers.                                                   *)
(***************************************************************************)
C18_RegexBeforeNumeric ==
  (calls > 0 /\ flags.IgnoreNumericType /\ ~flags.KeysOnly) =>
    \A pos \in Positions(file1, file2) :
      BothMatch(pos, flags) => DiffsAtOrBelow(differences, pos) = <<>>

\* With ignoreNumericType on, "1" and "2" at "k" both match the pattern
\* registered for "k" and are not reported, while "1" and "2" at "j" are.
C18_Witness ==
  /\ calls > 0 /\ flags.IgnoreNumericType
  /\ DOMAIN flags.RegexMatches = {kK}
  /\ flags.RegexMatches[kK] = OneOrTwo
  /\ file1.t = "map" /\ file2.t = "map"
  /\ kJ \in DOMAIN file1.m /\ kJ \in DOMAIN file2.m
  /\ file1.m[kK] = Str(<<"1">>) /\ file2.m[kK] = Str(<<"2">>)
  /\ differences = <<Diff(kJ, ValueMismatch, Str(<<"1">>), Str(<<"2">>))>>

(***************************************************************************)
(* Strings compared by edit distance at the registered paths.              *)
(***************************************************************************)
MaxThreshold == 2

sAB == <<"a", "b">>
sAC == <<"a", "c">>
sCD == <<"c", "d">>
sA == <<"a">>

FuzzyLeaves == {Str(sAB), Str(sAC), Str(sCD), Str(sA), Num(1, 0)}

FuzzyDocs ==
  FuzzyLeaves
  \cup {Obj([key \in {kK, kJ} |-> IF key = kK THEN x ELSE y])
        : x \in FuzzyLeaves, y \in FuzzyLeaves}
  \cup {Arr(<<x>>) : x \in FuzzyLeaves}
  \cup {Obj([key \in {kK} |-> Obj([k \in {kJ} |-> x])]) : x \in FuzzyLeaves}

\* No key, or one key.
LevenshteinKeySets ==
  {EmptyMap} \cup {[path \in {q} |-> TRUE] : q \in RegexPaths}

FuzzyInputs ==
  {<<d1, d2, o>> : d1 \in FuzzyDocs, d2 \in FuzzyDocs,
                   o \in {[NoOptions EXCEPT !.LevenshteinKeys = keys,
                                            !.LevenshteinThreshold = th]
                          : keys \in LevenshteinKeySets, th \in 0..MaxThreshold}}

InitFuzzy == Start(FuzzyInputs)

SpecFuzzy == InitFuzzy /\ [][Next]_vars

\* The edit distance of two different strings of the universe.
EditDistance(s, t) ==
  CASE {s, t} = {sAB, sAC} -> 1
    [] {s, t} = {sAB, sCD} -> 2
    [] {s, t} = {sAB, sA}  -> 1
    [] {s, t} = {sAC, sCD} -> 2
    [] {s, t} = {sAC, sA}  -> 1
    [] {s, t} = {sCD, sA}  -> 2
    [] OTHER -> 0

\* The position's path is a fuzzy path and both values are strings within
\* the threshold of each other.
WithinThreshold(pos, options) ==
  /\ pos.path \in DOMAIN options.LevenshteinKeys
  /\ pos.left.t = "string" /\ pos.right.t = "string"
  /\ EditDistance(pos.left.s, pos.right.s) <= options.LevenshteinThreshold

\* Only the fuzzy rule can relax equality.
FuzzyOnly(options) ==
  /\ ~options.IgnoreCase /\ ~options.IgnoreCaseValues
  /\ ~options.IgnoreNumericType /\ ~options.IgnoreBooleanType
  /\ ~options.IgnoreNullValues /\ ~options.KeysOnly
  /\ DOMAIN options.RegexMatches = {}

(***************************************************************************)
(* C15: with the fuzzy rule the only relaxation and any threshold >= 0,    *)
(* two strings compared at a path in fuzzyPaths yield no diff iff their    *)
(* edit distance is <= the threshold (threshold 0: iff they are            *)
(* identical); compareLevenshtein is false when either value is not a      *)
(* string; and two primitives at a path not in fuzzyPaths, or not both     *)
(* strings, yield a diff whenever they differ.                             *)
(***************************************************************************)
C15_Fuzzy ==
  (calls > 0 /\ FuzzyOnly(flags)) =>
    \A pos \in Positions(file1, file2) :
      /\ LeafPair(pos) =>
           DiffsAtOrBelow(differences, pos) =
             IF pos.left = pos.right \/ WithinThreshold(pos, flags)
             THEN <<>>
             ELSE <<UnequalLeafDiff(pos)>>
      /\ (pos.left.t # "string" \/ pos.right.t # "string") =>
           ~compareLevenshtein(pos.left, pos.right, flags.LevenshteinThreshold)

\* "k" is a fuzzy path and the threshold is 1: "ab" and "ac" at "k" are
\* not reported, "ab" and "ac" at "j" are.
C15_Witness ==
  /\ calls > 0 /\ FuzzyOnly(flags)
  /\ DOMAIN flags.LevenshteinKeys = {kK} /\ flags.LevenshteinThreshold = 1
  /\ file1.t = "map" /\ file2.t = "map"
  /\ kJ \in DOMAIN file1.m /\ kJ \in DOMAIN file2.m
  /\ file1.m[kK] = Str(sAB) /\ file2.m[kK] = Str(sAC)
  /\ differences = <<Diff(kJ, ValueMismatch, Str(sAB), Str(sAC))>>

(***************************************************************************)
(* Booleans and the strings that do or do not spell them.                  *)
(***************************************************************************)
sTrue == <<"t", "r", "u", "e">>
sTRUE == <<"T", "R", "U", "E">>
sFalse == <<"F", "a", "l", "s", "e">>
sYes == <<"y", "e", "s">>

BooleanLeaves ==
  {Bool(TRUE), Bool(FALSE), Str(sTrue), Str(sTRUE), Str(sFalse), Str(sYes),
   Num(1, 0), Null}

BooleanDocs ==
  BooleanLeaves
  \cup {Obj([key \in {kK} |-> x]) : x \in BooleanLeaves}
  \cup {Arr(<<x>>) : x \in BooleanLeaves}
  \cup {Obj([key \in {kK} |-> Arr(<<x>>)]) : x \in BooleanLeaves}

BooleanInputs ==
  {<<d1, d2, o>> : d1 \in BooleanDocs, d2 \in BooleanDocs,
                   o \in {NoOptions, [NoOptions EXCEPT !.IgnoreBooleanType = TRUE]}}

InitBoolean == Start(BooleanInputs)

SpecBoolean == InitBoolean /\ [][Next]_vars

\* The values of the universe that coerce to true, and to false.
CoerceToTrue == {Bool(TRUE), Str(sTrue), Str(sTRUE)}
CoerceToFalse == {Bool(FALSE), Str(sFalse)}

SameBoolean(pos) ==
  \/ pos.left \in CoerceToTrue /\ pos.right \in CoerceToTrue
  \/ pos.left \in CoerceToFalse /\ pos.right \in CoerceToFalse

\* Only the boolean rule can relax equality.
BooleanOnly(options) ==
  /\ ~options.IgnoreCase /\ ~options.IgnoreCaseValues
  /\ ~options.IgnoreNumericType /\ ~options.IgnoreNullValues
  /\ ~options.KeysOnly
  /\ DOMAIN options.RegexMatches = {} /\ DOMAIN options.LevenshteinKeys = {}

\* The two values are handed to compareValues: they are a member's or an
\* element's values, or two root values of one variant tag.
Evaluated(pos) == pos.kind # "root" \/ ~TagsDiffer(pos)

sAb == <<"A", "b">>
saB == <<"a", "B">>
sab == <<"a", "b">>

ValueCaseLeaves == {Str(sAb), Str(saB), Str(sab), Str(sAC), Num(1, 0), Null}

ValueCaseDocs ==
  ValueCaseLeaves
  \cup {Obj([key \in {kK} |-> x]) : x \in ValueCaseLeaves}
  \cup {Arr(<<x>>) : x \in ValueCaseLeaves}
  \cup {Obj([key \in {kK} |-> Arr(<<x>>)]) : x \in ValueCaseLeaves}

ValueCaseInputs ==
  {<<d1, d2, o>> : d1 \in ValueCaseDocs, d2 \in ValueCaseDocs,
                   o \in {NoOptions, [NoOptions EXCEPT !.IgnoreCaseValues = TRUE]}}

InitValueCase == Start(ValueCaseInputs)

SpecValueCase == InitValueCase /\ [][Next]_vars

\* The strings of the universe that are one string when letter case is
\* ignored.
SameIgnoringCase(pos) ==
  pos.left \in {Str(sAb), Str(saB), Str(sab)} /\ pos.right \in {Str(sAb), Str(saB), Str(sab)}

\* Only value-case folding can relax equality.
ValueCaseOnly(options) ==
  /\ ~options.IgnoreCase /\ ~options.IgnoreNumericType
  /\ ~options.IgnoreBooleanType /\ ~options.IgnoreNullValues
  /\ ~options.KeysOnly
  /\ DOMAIN options.RegexMatches = {} /\ DOMAIN options.LevenshteinKeys = {}

(***************************************************************************)
(* C17: with ignoreValueCase on, two strings that are identical when       *)
(* letter case is ignored yield no diff, at a member, at an array element  *)
(* and at the root; a pair of which one value is not a string yields what  *)
(* it yields with the flag off; with the flag off two strings differing in *)
(* letter case only yield one ValueMismatch.                               *)
(***************************************************************************)
C17_ValueCase ==
  (calls > 0 /\ ValueCaseOnly(flags)) =>
    \A pos \in Positions(file1, file2) :
      LeafPair(pos) =>
        DiffsAtOrBelow(differences, pos) =
          IF pos.left = pos.right \/ (flags.IgnoreCaseValues /\ SameIgnoringCase(pos))
          THEN <<>>
          ELSE <<UnequalLeafDiff(pos)>>

\* With ignoreValueCase on, a call compared the root strings "Ab" and "aB"
\* and reported nothing.
C17_Witness ==
  /\ calls > 0 /\ flags.IgnoreCaseValues
  /\ file1 = Str(sAb) /\ file2 = Str(saB)
  /\ differences = <<>>

(***************************************************************************)
(* Objects reached through the empty key.                                  *)
(***************************************************************************)
PathLeaves == {Num(1, 0), Num(2, 0)}

PathDocs == Nested(PathLeaves, {<<>>, <<"a">>}, MaxDepth)

PathInputs == {<<d1, d2, NoOptions>> : d1 \in PathDocs, d2 \in PathDocs}

InitPaths == Start(PathInputs)

SpecPaths == InitPaths /\ [][Next]_vars

\* The places two documents are compared at, each with the path the rule
\* "parentPath.key, or key when the parent is the root; parentPath[index]"
\* gives it.  present says which side holds the place ("both", "first",
\* "second").
RECURSIVE PlacesFrom(_, _, _, _)
PlacesFrom(val1, val2, path, isRoot) ==
  {[path |-> path, left |-> val1, right |-> val2, present |-> "both"]}
  \cup
  (IF val1.t = "map" /\ val2.t = "map"
   THEN UNION {
          LET newPath == IF isRoot THEN key ELSE path \o <<".">> \o key
          IN  IF key \in DOMAIN val1.m /\ key \in DOMAIN val2.m
              THEN PlacesFrom(val1.m[key], val2.m[key], newPath, FALSE)
              ELSE IF key \in DOMAIN val1.m
              THEN {[path |-> newPath, left |-> val1.m[key], right |-> Null,
                     present |-> "first"]}
              ELSE {[path |-> newPath, left |-> Null, right |-> val2.m[key],
                     present |-> "second"]}
          : key \in DOMAIN val1.m \cup DOMAIN val2.m}
   ELSE {})
  \cup
  (IF val1.t = "slice" /\ val2.t = "slice"
   THEN UNION {PlacesFrom(val1.e[i], val2.e[i],
                          path \o <<"[">> \o Itoa(i - 1) \o <<"]">>, FALSE)
               : i \in 1..Min(Len(val1.e), Len(val2.e))}
   ELSE {})

Places == PlacesFrom(file1, file2, <<>>, TRUE)

(***************************************************************************)
(* C19: every diff of the report lies at the path of a compared place,     *)
(* built as parentPath.key for a member (key alone when the parent is the  *)
(* root) and parentPath[index] for an element - also below an object       *)
(* reached through the empty key at the root; and with every option off    *)
(* two different primitives at a place, and a key held by one side only,   *)
(* are reported at that path.                                              *)
(***************************************************************************)
C19_PathConstruction ==
  (calls > 0 /\ Plain(flags)) =>
    /\ \A i \in DOMAIN differences :
         \E place \in Places : differences[i].Path = place.path
    /\ \A place \in Places :
         CASE place.present = "first" ->
                \E i \in DOMAIN differences :
                  differences[i] = Diff(place.path, KeyOnlyInFirst, place.left, Null)
           [] place.present = "second" ->
                \E i \in DOMAIN differences :
                  differences[i] = Diff(place.path, KeyOnlyInSecond, Null, place.right)
           [] OTHER ->
                (/\ ~isComplex(place.left) /\ ~isComplex(place.right)
                 /\ place.left # place.right)
                => \E i \in DOMAIN differences :
                     differences[i].Path = place.path

(***************************************************************************)
(* C20: when a nil document is passed as the left or the right document,   *)
(* the call signals an invalid argument and returns no Diff sequence: no   *)
(* call on a nil document has returned.                                    *)
(***************************************************************************)
C20_NilRejected ==
  (file1.t = "nil" \/ file2.t = "nil") => (calls = 0 /\ ~revCalled)

(***************************************************************************)
(* main, from the call of FindDifferences to os.Exit.  The two files have  *)
(* been read and decoded and the options parsed.                           *)
(***************************************************************************)
\* The lines printed for a report: a heading and one entry per diff.
ReportLines(report) ==
  <<"The JSON files are different.", "Differences found:">>
  \o [i \in DOMAIN report |-> report[i].Type]

\* main exiting 0 whenever -quiet is given.
MainQuietExitsZero ==
  /\ exit = Running
  /\ \E result \in FindDifferences(file1, file2, <<>>, flags) :
       /\ differences' = result
       /\ IF command.outputJSON /\ ~command.writable
          THEN /\ stdout' = <<"Error writing differences to file">>
               /\ outputFile' = outputFile
               /\ exit' = 1
          ELSE /\ outputFile' = (outputFile \/ command.outputJSON)
               /\ stdout' =
                    (IF command.outputJSON /\ ~command.quiet
                     THEN <<"Differences written">> ELSE <<>>)
                    \o (IF command.quiet THEN <<>>
                        ELSE IF Len(result) = 0
                        THEN <<"The JSON files are identical.">>
                        ELSE ReportLines(result))
               /\ exit' = IF Len(result) = 0 \/ command.quiet THEN 0 ELSE 1
  /\ previous' = differences
  /\ calls' = calls + 1
  /\ UNCHANGED <<file1, file2, flags, revCalled, reversed, command, narrowCalled, narrow>>

Main ==
  /\ exit = Running
  /\ \E result \in FindDifferences(file1, file2, <<>>, flags) :
       /\ differences' = result
       /\ IF command.outputJSON /\ ~command.writable
          THEN /\ stdout' = <<"Error writing differences to file">>
               /\ outputFile' = outputFile
               /\ exit' = 1
          ELSE /\ outputFile' = (outputFile \/ command.outputJSON)
               /\ stdout' =
                    (IF command.outputJSON /\ ~command.quiet
                     THEN <<"Differences written">> ELSE <<>>)
                    \o (IF command.quiet THEN <<>>
                        ELSE IF Len(result) = 0
                        THEN <<"The JSON files are identical.">>
                        ELSE ReportLines(result))
               /\ exit' = IF Len(result) = 0 THEN 0 ELSE 1
  /\ previous' = differences
  /\ calls' = calls + 1
  /\ UNCHANGED <<file1, file2, flags, revCalled, reversed, command, narrowCalled, narrow>>

MainDocs == Nested(TypeLeaves, {<<"a">>}, 1)

Commands == {Command(q, o, w) : q \in BOOLEAN, o \in BOOLEAN, w \in BOOLEAN}

InitMain ==
  /\ \E d1 \in MainDocs, d2 \in MainDocs :
       /\ file1 = d1
       /\ file2 = d2
  /\ flags \in {NoOptions,
                [NoOptions EXCEPT !.KeysOnly = TRUE],
                [NoOptions EXCEPT !.IgnoreNullValues = TRUE]}
  /\ command \in Commands
  /\ calls = 0
  /\ differences = <<>>
  /\ previous = <<>>
  /\ revCalled = FALSE
  /\ reversed = <<>>
  /\ outputFile = FALSE
  /\ stdout = <<>>
  /\ exit = Running
  /\ narrowCalled = FALSE
  /\ narrow = <<>>

NextMain == Main

SpecMain == InitMain /\ [][NextMain]_vars

RECURSIVE callDepthsNoTypeGate(_, _, _, _)
\* callDepths of an engine that, on a type mismatch, goes on comparing the
\* children of a left container against nil.
callDepthsNoTypeGate(obj1, obj2, path, options) ==
  {1} \cup
  {1 + d : d \in UNION {
     IF isComplex(pair[1])
     THEN callDepthsNoTypeGate(pair[1], pair[2], pair[3], options)
     ELSE {}
     : pair \in
         CASE obj1.t = "map" ->
                {<<obj1.m[k1], IF obj2.t = "map" /\ k1 \in DOMAIN obj2.m
                               THEN obj2.m[k1] ELSE Null,
                   IF path # <<>> THEN path \o <<".">> \o k1 ELSE k1>>
                 : k1 \in DOMAIN obj1.m}
           [] obj1.t = "slice" ->
                {<<obj1.e[i], IF obj2.t = "slice" /\ i <= Len(obj2.e)
                              THEN obj2.e[i] ELSE Null,
                   path \o <<"[">> \o Itoa(i - 1) \o <<"]">> >>
                 : i \in 1..Len(obj1.e)}
           [] OTHER -> {}}}

RECURSIVE callDepths(_, _, _, _)
callDepths(obj1, obj2, path, options) ==
  IF TypeOf(obj1) # TypeOf(obj2) THEN {1}
  ELSE
  {1} \cup
  {1 + d : d \in UNION {
     IF /\ isComplex(pair[1])
        /\ (options.KeysOnly \/ ~compareValues(pair[1], pair[2], pair[3], options))
     THEN callDepths(pair[1], pair[2], pair[3], options)
     ELSE {}
     : pair \in
         CASE obj1.t = "map" ->
                {<<obj1.m[k[1]], obj2.m[k[2]],
                   IF path # <<>> THEN path \o <<".">> \o k[1] ELSE k[1]>>
                 : k \in {kk \in (DOMAIN obj1.m) \X (DOMAIN obj2.m) :
                            IF options.IgnoreCase
                            THEN ToLower(kk[1]) = ToLower(kk[2])
                            ELSE kk[1] = kk[2]}}
           [] obj1.t = "slice" ->
                {<<obj1.e[i], obj2.e[i],
                   path \o <<"[">> \o Itoa(i - 1) \o <<"]">> >>
                 : i \in 1..Min(Len(obj1.e), Len(obj2.e))}
           [] OTHER -> {}}}

\* The same callers under fair scheduling: a call that can return does.
\* Documents of every shape up to MaxDepth over one number.
LiveLeaves == {Num(1, 0)}

LiveDocs == Nested(LiveLeaves, {<<"a">>}, MaxDepth)

LiveInputs ==
  {<<d1, d2, o>> : d1 \in LiveDocs, d2 \in LiveDocs,
                   o \in {NoOptions, [NoOptions EXCEPT !.KeysOnly = TRUE]}}

InitLive == Start(LiveInputs)

SpecLive == InitLive /\ [][Next]_vars /\ WF_vars(Compare) /\ WF_vars(CompareReversed)

\* The nesting depth of a document: 0 for a primitive, one more than its
\* deepest child for a container.
RECURSIVE Nesting(_)
Nesting(val) ==
  CASE val.t = "slice" ->
         1 + (IF val.e = <<>> THEN 0
              ELSE CHOOSE n \in {Nesting(val.e[i]) : i \in DOMAIN val.e} :
                     \A i \in DOMAIN val.e : Nesting(val.e[i]) <= n)
    [] val.t = "map" ->
         1 + (IF DOMAIN val.m = {} THEN 0
              ELSE CHOOSE n \in {Nesting(val.m[key]) : key \in DOMAIN val.m} :
                     \A key \in DOMAIN val.m : Nesting(val.m[key]) <= n)
    [] OTHER -> 0

DepthBounded ==
  \A d \in callDepths(file1, file2, <<>>, flags) :
    d <= Min(Nesting(file1), Nesting(file2)) + 1

(***************************************************************************)
(* C22: for every pair of documents and every policy of the universe the   *)
(* call of FindDifferences returns a Diff sequence - the caller gets past  *)
(* its calls - and no call of the recursion lies deeper than the nesting   *)
(* depth of the shallower document plus one.                               *)
(***************************************************************************)
C22_Termination == []DepthBounded /\ <>(calls = MaxCalls /\ revCalled)

\* A call on two documents of nesting depth 2 recursed to depth 2 and
\* returned a diff found there.
C22_Witness ==
  /\ calls > 0
  /\ Nesting(file1) = 2 /\ Nesting(file2) = 2
  /\ 2 \in callDepths(file1, file2, <<>>, flags)
  /\ differences # <<>>

DiffString(path, message, operands) ==
  [text |-> path \o <<":", " ">> \o <<message>>, operands |-> operands]

RECURSIVE findDifferencesTwoOptions(_, _, _, _)

\* compareMemberTwoOptions that in keys-only mode does not descend.
compareMemberTwoOptionsShallow(val1, val2, newPath, options) ==
  IF ~options.KeysOnly /\ ~DeepEqual(val1, val2)
  THEN IF isComplex(val1)
       THEN findDifferencesTwoOptions(val1, val2, newPath, options)
       ELSE {<<DiffString(newPath, "value mismatch", <<val1, val2>>)>>}
  ELSE {<<>>}

\* The body run for a key present in both maps and for an array element.
compareMemberTwoOptions(val1, val2, newPath, options) ==
  IF ~options.KeysOnly /\ ~DeepEqual(val1, val2)
  THEN IF isComplex(val1)
       THEN findDifferencesTwoOptions(val1, val2, newPath, options)
       ELSE {<<DiffString(newPath, "value mismatch", <<val1, val2>>)>>}
  ELSE IF options.KeysOnly /\ isComplex(val1)
       THEN findDifferencesTwoOptions(val1, val2, newPath, options)
       ELSE {<<>>}

\* One iteration of the loop over the sorted keys.
checkKeyTwoOptions(key, map1, map2, keyMap1, keyMap2, path, options) ==
  LET ok1 == IF options.IgnoreCase THEN key \in DOMAIN keyMap1
             ELSE key \in DOMAIN map1
      ok2 == IF options.IgnoreCase THEN key \in DOMAIN keyMap2
             ELSE key \in DOMAIN map2
      val1 == IF ~ok1 THEN Null
              ELSE IF options.IgnoreCase THEN map1[keyMap1[key]] ELSE map1[key]
      val2 == IF ~ok2 THEN Null
              ELSE IF options.IgnoreCase THEN map2[keyMap2[key]] ELSE map2[key]
      name == IF options.IgnoreCase
              THEN IF ok1 THEN keyMap1[key]
                   ELSE IF ok2 THEN keyMap2[key] ELSE key
              ELSE key
      newPath == IF path # <<>> THEN path \o <<".">> \o name ELSE name
  IN  IF ~ok1
      THEN {<<DiffString(newPath, "key exists only in second file", <<>>)>>}
      ELSE IF ~ok2
      THEN {<<DiffString(newPath, "key exists only in first file", <<>>)>>}
      ELSE compareMemberTwoOptions(val1, val2, newPath, options)

compareMapsTwoOptions(map1, map2, path, options) ==
  IF options.IgnoreCase
  THEN UNION {
         LET keys == SortStrings(DOMAIN keyMap1 \cup DOMAIN keyMap2)
         IN  ConcatAll([i \in 1..Len(keys) |->
               checkKeyTwoOptions(keys[i], map1, map2, keyMap1, keyMap2,
                                  path, options)])
         : keyMap1 \in FoldedKeyMaps(map1), keyMap2 \in FoldedKeyMaps(map2)}
  ELSE LET keys == SortStrings(DOMAIN map1 \cup DOMAIN map2)
       IN  ConcatAll([i \in 1..Len(keys) |->
             checkKeyTwoOptions(keys[i], map1, map2, EmptyMap, EmptyMap,
                                path, options)])

compareArraysTwoOptions(arr1, arr2, path, options) ==
  LET lengthDiff == IF Len(arr1) # Len(arr2)
                    THEN <<DiffString(path, "array length mismatch",
                                      <<GoInt(Len(arr1)), GoInt(Len(arr2))>>)>>
                    ELSE <<>>
      minLen == Min(Len(arr1), Len(arr2))
  IN  ConcatAll(<<{lengthDiff}>> \o
        [i \in 1..minLen |->
           compareMemberTwoOptions(arr1[i], arr2[i],
                         path \o <<"[">> \o Itoa(i - 1) \o <<"]">>, options)])

findDifferencesTwoOptions(obj1, obj2, path, options) ==
  IF TypeOf(obj1) # TypeOf(obj2)
  THEN {<<DiffString(path, "type mismatch",
                     <<TypeValue(TypeOf(obj1)), TypeValue(TypeOf(obj2))>>)>>}
  ELSE CASE obj1.t = "map" ->
              compareMapsTwoOptions(obj1.m, obj2.m, path, options)
         [] obj1.t = "slice" ->
              compareArraysTwoOptions(obj1.e, obj2.e, path, options)
         [] OTHER ->
              IF ~options.KeysOnly /\ ~DeepEqual(obj1, obj2)
              THEN {<<DiffString(path, "value mismatch", <<obj1, obj2>>)>>}
              ELSE {<<>>}

\* The exported function packs its two flags into its CompareOptions.
FindDifferencesTwoOptions(obj1, obj2, path, ignoreCase, keysOnly) ==
  findDifferencesTwoOptions(obj1, obj2, path,
                            [IgnoreCase |-> ignoreCase, KeysOnly |-> keysOnly])

\* A caller of the two-option engine on the same documents.
CompareTwoOptions ==
  /\ ~narrowCalled
  /\ \E result \in FindDifferencesTwoOptions(file1, file2, <<>>,
                                             flags.IgnoreCase, flags.KeysOnly) :
       narrow' = result
  /\ narrowCalled' = TRUE
  /\ UNCHANGED <<file1, file2, flags, calls, differences, previous>>
  /\ UNCHANGED <<revCalled, reversed, command, outputFile, stdout, exit>>

\* Members of one, two or no key, spelled in either case.
TwoOptionInner ==
  {Num(1, 0), Num(2, 0), Arr(<<Num(1, 0)>>),
   Obj([k \in {<<"a">>} |-> Num(1, 0)]), Obj([k \in {<<"A">>} |-> Num(2, 0)])}

TwoOptionDocs ==
  TwoOptionInner \cup Arrays(TwoOptionInner, 1)
    \cup Objects({<<"a">>, <<"A">>}, TwoOptionInner, MaxKeys)

TwoOptionInputs ==
  {<<d1, d2, [NoOptions EXCEPT !.IgnoreCase = ic, !.KeysOnly = ko]>> :
     d1 \in TwoOptionDocs, d2 \in TwoOptionDocs, ic \in BOOLEAN, ko \in BOOLEAN}

InitTwoOptions == Start(TwoOptionInputs)

NextTwoOptions == Compare \/ CompareTwoOptions

SpecTwoOptions == InitTwoOptions /\ [][NextTwoOptions]_vars

\* The message the two-option engine prints for each kind of diff.
KindMessage(type) ==
  CASE type = TypeMismatch    -> "type mismatch"
    [] type = ValueMismatch   -> "value mismatch"
    [] type = KeyOnlyInFirst  -> "key exists only in first file"
    [] type = KeyOnlyInSecond -> "key exists only in second file"
    [] type = ArrayLength     -> "array length mismatch"

\* strs names, in order, the path and kind of every diff of report and
\* nothing else.
SameDiffs(report, strs) ==
  /\ Len(report) = Len(strs)
  /\ \A i \in DOMAIN report :
       strs[i].text = report[i].Path \o <<":", " ">> \o <<KindMessage(report[i].Type)>>

(***************************************************************************)
(* C24: with every relaxation other than ignoreCase and keysOnly off, the  *)
(* full engine and the two-option engine report the same kinds at the same *)
(* paths in the same order: what either returned is, diff for diff, a      *)
(* report the other can return on these documents.                         *)
(***************************************************************************)
C24_TwoOptionSubset ==
  (calls > 0 /\ narrowCalled) =>
    /\ \E report \in FindDifferences(file1, file2, <<>>, flags) :
         SameDiffs(report, narrow)
    /\ \E strs \in FindDifferencesTwoOptions(file1, file2, <<>>,
                                             flags.IgnoreCase, flags.KeysOnly) :
         SameDiffs(differences, strs)

\* Under ignoreCase, on a first document holding both spellings of a key,
\* both engines have reported a diff found below a member.
C24_Witness ==
  /\ calls > 0 /\ narrowCalled /\ flags.IgnoreCase
  /\ file1.t = "map" /\ Cardinality(DOMAIN file1.m) = 2
  /\ narrow # <<>>
  /\ \E i \in DOMAIN differences : \E j \in DOMAIN differences[i].Path :
       differences[i].Path[j] = "."

(***************************************************************************)
(* Documents and policies for the properties that relate the reports of    *)
(* two policies: leaves that the relaxations identify, single-child        *)
(* containers, and objects of up to two members whose keys differ in       *)
(* letter case only.                                                       *)
(***************************************************************************)
PolicyLeaves ==
  {Null, Bool(TRUE), Num(1, 0), Str(<<"1">>), Str(<<"a">>), Str(<<"A">>),
   Str(sTrue)}

PolicyInner ==
  {Null, Num(1, 0),
   Obj([k \in {<<"a">>} |-> Str(<<"a">>)]), Obj([k \in {<<"a">>} |-> Str(<<"A">>)])}

PolicyDocs ==
  Nested(PolicyLeaves, {<<"a">>}, 1)
    \cup Objects({<<"a">>, <<"A">>}, PolicyInner, MaxKeys)

\* The value relaxations, by the CompareOptions field that switches each.
Relaxations ==
  {"IgnoreCaseValues", "IgnoreNullValues", "IgnoreNumericType",
   "IgnoreBooleanType", "RegexMatches", "LevenshteinKeys"}

IsOn(options, relaxation) ==
  CASE relaxation = "IgnoreCaseValues"  -> options.IgnoreCaseValues
    [] relaxation = "IgnoreNullValues"  -> options.IgnoreNullValues
    [] relaxation = "IgnoreNumericType" -> options.IgnoreNumericType
    [] relaxation = "IgnoreBooleanType" -> options.IgnoreBooleanType
    [] relaxation = "RegexMatches"      -> DOMAIN options.RegexMatches # {}
    [] relaxation = "LevenshteinKeys"   -> DOMAIN options.LevenshteinKeys # {}

Without(options, relaxation) ==
  CASE relaxation = "IgnoreCaseValues" ->
         [options EXCEPT !.IgnoreCaseValues = FALSE]
    [] relaxation = "IgnoreNullValues" ->
         [options EXCEPT !.IgnoreNullValues = FALSE]
    [] relaxation = "IgnoreNumericType" ->
         [options EXCEPT !.IgnoreNumericType = FALSE]
    [] relaxation = "IgnoreBooleanType" ->
         [options EXCEPT !.IgnoreBooleanType = FALSE]
    [] relaxation = "RegexMatches" ->
         [options EXCEPT !.RegexMatches = EmptyMap]
    [] relaxation = "LevenshteinKeys" ->
         [options EXCEPT !.LevenshteinKeys = EmptyMap]

\* No value relaxation, each one alone, and two pairs.
PolicyRelaxations ==
  {NoOptions,
   [NoOptions EXCEPT !.IgnoreCaseValues = TRUE],
   [NoOptions EXCEPT !.IgnoreNullValues = TRUE],
   [NoOptions EXCEPT !.IgnoreNumericType = TRUE],
   [NoOptions EXCEPT !.IgnoreBooleanType = TRUE],
   [NoOptions EXCEPT !.RegexMatches = [q \in {<<"a">>} |-> AnyChar]],
   [NoOptions EXCEPT !.LevenshteinKeys = [q \in {<<"a">>} |-> TRUE],
                     !.LevenshteinThreshold = 1],
   [NoOptions EXCEPT !.IgnoreNullValues = TRUE, !.IgnoreNumericType = TRUE],
   [NoOptions EXCEPT !.IgnoreCaseValues = TRUE, !.IgnoreBooleanType = TRUE]}

Policies ==
  {[o EXCEPT !.IgnoreCase = ic, !.KeysOnly = ko] :
     o \in PolicyRelaxations, ic \in BOOLEAN, ko \in BOOLEAN}

PolicyInputs ==
  {<<d1, d2, o>> : d1 \in PolicyDocs, d2 \in PolicyDocs, o \in Policies}

InitPolicy == Start(PolicyInputs)

NextPolicy == Compare

SpecPolicy == InitPolicy /\ [][NextPolicy]_vars

(***************************************************************************)
(* C25: with keysOnly off and no relaxation on, the report is empty        *)
(* exactly when the two documents are the same value: same variant, same   *)
(* content at every level.                                                 *)
(***************************************************************************)
C25_Exactness ==
  (calls > 0 /\ NoRelaxation(flags) /\ ~flags.KeysOnly) =>
    (differences = <<>> <=> file1 = file2)

\* Two objects of two members each that differ only inside a member have
\* been compared strictly, and the report names a place below that member.
C25_Witness ==
  /\ calls > 0 /\ NoRelaxation(flags) /\ ~flags.KeysOnly
  /\ file1.t = "map" /\ file2.t = "map"
  /\ Cardinality(DOMAIN file1.m) = 2 /\ DOMAIN file1.m = DOMAIN file2.m
  /\ file1 # file2
  /\ \E i \in DOMAIN differences : \E j \in DOMAIN differences[i].Path :
       differences[i].Path[j] = "."

(***************************************************************************)
(* C26: the verdict does not depend on the order of the two documents:     *)
(* FindDifferences(a, b) is empty exactly when FindDifferences(b, a) is,   *)
(* under every policy, keysOnly included.                                  *)
(***************************************************************************)
C26_VerdictSymmetric ==
  (calls > 0 /\ revCalled) => (differences = <<>> <=> reversed = <<>>)

(***************************************************************************)
(* C27: with the documents, ignoreCase and keysOnly fixed, the report      *)
(* obtained with a value relaxation on is a subsequence of a report        *)
(* obtained with that relaxation off: the relaxation adds no diff, changes *)
(* none and reorders none.                                                 *)
(***************************************************************************)
RECURSIVE IsSubsequence(_, _)
IsSubsequence(s, t) ==
  IF s = <<>> THEN TRUE
  ELSE IF t = <<>> THEN FALSE
  ELSE IF s[1] = t[1] THEN IsSubsequence(Tail(s), Tail(t))
  ELSE IsSubsequence(s, Tail(t))

C27_RelaxationsOnlyRemove ==
  calls > 0 =>
    \A relaxation \in Relaxations :
      IsOn(flags, relaxation) =>
        \E strict \in FindDifferences(file1, file2, <<>>,
                                      Without(flags, relaxation)) :
          IsSubsequence(differences, strict)

\* A relaxation has removed a diff from between or beside others: the
\* report is not empty and the report without the relaxation is longer.
C27_Witness ==
  /\ calls > 0 /\ differences # <<>>
  /\ \E relaxation \in Relaxations :
       /\ IsOn(flags, relaxation)
       /\ \A strict \in FindDifferences(file1, file2, <<>>,
                                        Without(flags, relaxation)) :
            Len(strict) > Len(differences)

(***************************************************************************)
(* C28: every diff reported with keysOnly on is reported, at the same path *)
(* and with the same kind, when keysOnly is off and every other option is  *)
(* kept, ignoreNullValues on included.                                     *)
(***************************************************************************)
C28_StructureSubset ==
  (calls > 0 /\ flags.KeysOnly) =>
    \E full \in FindDifferences(file1, file2, <<>>,
                                [flags EXCEPT !.KeysOnly = FALSE]) :
      \A i \in DOMAIN differences : \E j \in DOMAIN full :
        /\ full[j].Path = differences[i].Path
        /\ full[j].Type = differences[i].Type

(***************************************************************************)
(* C29: with ignoreCase on, comparing a document with itself reports       *)
(* nothing, also when one of its objects holds two keys that differ only   *)
(* in letter case.                                                         *)
(***************************************************************************)
C29_IdentityIgnoringKeyCase ==
  (calls > 0 /\ flags.IgnoreCase /\ file1 = file2) => differences = <<>>

(***************************************************************************)
(* The path strings of one comparison.  pathsVisited gives, for every      *)
(* position the engine computes a path for (the root, every member of      *)
(* either object, every element below both lengths), the steps that lead   *)
(* to it from the root and the path string the engine builds for it.       *)
(***************************************************************************)
KeyStep(key) == [step |-> "key", key |-> key, index |-> 0]
IndexStep(i) == [step |-> "index", key |-> <<>>, index |-> i]

RECURSIVE pathsVisited(_, _, _, _)
pathsVisited(obj1, obj2, path, steps) ==
  {[steps |-> steps, path |-> path]}
  \cup
  (IF obj1.t = "map" /\ obj2.t = "map"
   THEN UNION {
          LET newPath == IF path # <<>> THEN path \o <<".">> \o key ELSE key
          IN  IF key \in DOMAIN obj1.m /\ key \in DOMAIN obj2.m
              THEN pathsVisited(obj1.m[key], obj2.m[key], newPath,
                                Append(steps, KeyStep(key)))
              ELSE {[steps |-> Append(steps, KeyStep(key)), path |-> newPath]}
          : key \in DOMAIN obj1.m \cup DOMAIN obj2.m}
   ELSE {})
  \cup
  (IF obj1.t = "slice" /\ obj2.t = "slice"
   THEN UNION {pathsVisited(obj1.e[i], obj2.e[i],
                            path \o <<"[">> \o Itoa(i - 1) \o <<"]">>,
                            Append(steps, IndexStep(i - 1)))
               : i \in 1..Min(Len(obj1.e), Len(obj2.e))}
   ELSE {})

(***************************************************************************)
(* C30: within one comparison two different positions never get the same   *)
(* path string, whatever the member keys are, the empty key included.      *)
(* Stated for the positions below the root, the ones a rule registered by  *)
(* path can apply to in a document that has members.                       *)
(***************************************************************************)
C30_PathsUnique ==
  calls > 0 =>
    \A p, q \in pathsVisited(file1, file2, <<>>, <<>>) :
      (p.path = q.path /\ p.steps # <<>> /\ q.steps # <<>>) => p.steps = q.steps

====
